---------------------------- MODULE Spec2Model ----------------------------
(***************************************************************************)
(* A model of seano's shared view plumbing (support/seano/views/shared):   *)
(*   schema_painting.py   backstory colouring, system limits, risk levels  *)
(*   schema_plumbing.py   field merge tool, note->release field copy,      *)
(*                        sticky field propagation, transitive reduction   *)
(*   hlist.py             merge of per-note hierarchical lists             *)
(*                                                                         *)
(* A release is a Python dict.  Its 'after' list and its 'notes' list are   *)
(* kept in the variables after and notes; every other key lives in rel[r], *)
(* a function whose DOMAIN is the set of keys present in the dict, so that *)
(* "k in release" is  k \in DOMAIN rel[r].                                 *)
(***************************************************************************)
EXTENDS Integers, Sequences, FiniteSets, TLC

VARIABLES
    releases,   \* the releases list, in list order (release names)
    after,      \* after[r]: the parent edges of r, dicts {'name', 'is-backstory'}
    notes,      \* notes[r]: the notes of r, each a dict
    rel,        \* rel[r]: the other keys of the release dict
    rel0,       \* rel as it was when the running call began
    start,      \* the start release handed to seano_paint_backstory_releases
    fields,     \* the fields list handed to the running call
    idx,        \* position of the running call's loop over the releases list
    fld,        \* position of the running call's loop over the fields
    err,        \* the exception the call raised, <<>> when none
    seen,       \* _seen_releases of the running propagation call
    ancCache,   \* _ancestor_inheritance of the running propagation call
    ntpCache,   \* _non_transitive_parents of the running propagation call
    calln,      \* calls seano_paint_release_sys_limits has made so far
    hnotes,     \* the notes handed to seano_cascade_hlist
    hkey,       \* the key handed to seano_cascade_hlist
    tree,       \* lst['children'] of the running seano_cascade_hlist call
    tag,        \* tag of the running seano_cascade_hlist call
    mexists,    \* does_privileged_base_exist handed to the merge tool
    mbase,      \* privileged_base handed to the merge tool
    madds,      \* additions handed to the merge tool
    mresult,    \* what the merge tool call came to
    rtodo,      \* nodes seano_render_html_note_list has still to format
    rmarks,     \* nodes that hold already_printed_tickets = True
    rlog,       \* what the line formatter did with each node so far
    pc,         \* where the running call is
    stack,      \* the Python call stack of the running call
    writes      \* log of the assignments made by the running call

vars == <<releases, after, notes, rel, rel0, start, fields, idx, fld, err,
          seen, ancCache, ntpCache, calln, hnotes, hkey, tree, tag, mexists,
          mbase, madds, mresult, rtodo, rmarks, rlog, pc, stack, writes>>

\* The state of seano_render_html_note_list after the merge
render == <<rtodo, rmarks, rlog>>

\* The state of a call of seano_field_mergetool_opaque on its own
mergecall == <<mexists, mbase, madds, mresult>>

\* The state of seano_cascade_hlist
hlist == <<hnotes, hkey, tree, tag>>

\* The per-call state of seano_propagate_sticky_release_fields
caches == <<seen, ancCache, ntpCache>>

\* The release graph and the notes are never written by any operation.
cdm == <<releases, after, notes, rel0, start, fields>>

-----------------------------------------------------------------------------
(* Bounds of the model *)

NRel == 3      \* releases of a release graph
RiskRel == 2   \* releases handed to seano_paint_release_risk_levels
MaxRiskNotes == 3   \* notes of all the releases handed to it, together
RedRel == 4    \* releases of a graph handed to get_non_transitive_parents
StickyRel == 3 \* releases handed to seano_propagate_sticky_release_fields
SysRel == 3    \* releases handed to seano_paint_release_sys_limits
MaxSysNotes == 2   \* notes of all the releases handed to it, together
MaxStickyCalls == 2 \* calls of seano_propagate_sticky_release_fields in a row
MaxCopyCalls == 2 \* calls of seano_copy_note_fields_to_releases in a row
MaxAdditions == 3 \* additions handed to the merge tool on its own
MaxHNotes == 2 \* notes handed to seano_cascade_hlist
MaxHSize == 3  \* labels in the hlist of one note
CopyRel == 2   \* releases handed to seano_copy_note_fields_to_releases
MaxCopyNotes == 3   \* notes of all the releases handed to it, together

-----------------------------------------------------------------------------
(* Python helpers *)

None == "<None>"

Names == DOMAIN after

EmptyDict == [k \in {} |-> 0]

\* d[k] = v on a Python dict
Put(d, k, v) == [x \in (DOMAIN d) \cup {k} |-> IF x = k THEN v ELSE d[x]]

\* k in d and d[k] == v
Holds(d, k, v) == k \in DOMAIN d /\ d[k] = v

\* d.get(k, default)
Get(d, k, default) == IF k \in DOMAIN d THEN d[k] ELSE default

\* [f(x) for x in s if p(x)] is built from these two
RECURSIVE SelectNames(_, _)
SelectNames(edges, tagged) ==
    IF edges = <<>> THEN <<>>
    ELSE LET x == Head(edges)
             rest == SelectNames(Tail(edges), tagged)
         IN IF x.backstory = tagged THEN <<x.name>> \o rest ELSE rest

Top == stack[Len(stack)]

Pop == SubSeq(stack, 1, Len(stack) - 1)

\* The sequences over S without repetition
SeqsNoDup(S) ==
    UNION {{s \in [1..n -> S] : \A i, j \in 1..n : i # j => s[i] # s[j]} :
           n \in 0..Cardinality(S)}

\* The parent-edge lists a release r can have: edges to releases that come
\* earlier in a topological order (the graph is acyclic), each edge
\* tagged 'is-backstory' or not.
EdgeLists(r, tags) ==
    UNION {{[i \in 1..Len(s) |-> [name |-> s[i], backstory |-> t[i]]] :
              t \in [1..Len(s) -> tags]} :
           s \in SeqsNoDup(1..(r - 1))}

\* The acyclic graphs over the releases 1..n, as after[r] for each r
RECURSIVE Graphs(_, _)
Graphs(n, tags) ==
    IF n = 0 THEN {<<>>}
    ELSE {Append(g, e) : g \in Graphs(n - 1, tags), e \in EdgeLists(n, tags)}

Identity(n) == [i \in 1..n |-> i]

-----------------------------------------------------------------------------
(* Graph predicates used by the properties *)

Parents(r) == {after[r][i].name : i \in 1..Len(after[r])}

RECURSIVE AncestorsOrSelf(_)
AncestorsOrSelf(r) == {r} \cup UNION {AncestorsOrSelf(p) : p \in Parents(r)}

\* y is reached from x by a path holding at least one backstory-tagged edge
RECURSIVE TaggedReach(_, _, _)
TaggedReach(x, y, seenTag) ==
    \/ x = y /\ seenTag
    \/ \E i \in 1..Len(after[x]) :
          TaggedReach(after[x][i].name, y, seenTag \/ after[x][i].backstory)

\* y is reached from x by a path holding no backstory-tagged edge
RECURSIVE PlainReach(_, _)
PlainReach(x, y) ==
    \/ x = y
    \/ \E i \in 1..Len(after[x]) :
          /\ ~after[x][i].backstory
          /\ PlainReach(after[x][i].name, y)

-----------------------------------------------------------------------------
(* seano_paint_backstory_releases(cdm, start)                              *)
(* A frame of paint(name, is_backstory): at is the statement it is at,     *)
(* todo the rest of the list its running for-loop iterates.                *)

FrameAlwaysTrue(name, is_backstory) ==
    [name |-> name, is_backstory |-> TRUE, at |-> "write", todo |-> <<>>]

Frame(name, is_backstory) ==
    [name |-> name, is_backstory |-> is_backstory, at |-> "write", todo |-> <<>>]

\* paint(start, False)
PaintStart ==
    /\ pc = "ready"
    /\ stack' = <<Frame(start, FALSE)>>
    /\ pc' = "painting"
    /\ UNCHANGED <<render, mergecall, hlist, calln, cdm, caches, rel, idx, fld, err, writes>>

\* cdm.named_releases[name]['is-backstory'] = is_backstory, then the list
\* of the first for-loop is built
PaintWrite ==
    /\ pc = "painting"
    /\ Top.at = "write"
    /\ rel' = [rel EXCEPT ![Top.name] = Put(@, "is-backstory", Top.is_backstory)]
    /\ writes' = Append(writes, [name |-> Top.name, key |-> "is-backstory",
                                 value |-> Top.is_backstory])
    /\ stack' = [stack EXCEPT ![Len(stack)] =
                    [@ EXCEPT !.at = "tagged",
                              !.todo = SelectNames(after[Top.name], TRUE)]]
    /\ UNCHANGED <<render, mergecall, hlist, calln, cdm, caches, idx, fld, err, pc>>

\* for ancestor in [tagged parents]: paint(ancestor, True)
PaintTagged ==
    /\ pc = "painting"
    /\ Top.at = "tagged"
    /\ Top.todo # <<>>
    /\ stack' = Append([stack EXCEPT ![Len(stack)] = [@ EXCEPT !.todo = Tail(@)]],
                       Frame(Head(Top.todo), TRUE))
    /\ UNCHANGED <<render, mergecall, hlist, calln, cdm, caches, rel, idx, fld, err, pc, writes>>

\* the first loop is over: the list of the second for-loop is built
PaintTaggedDone ==
    /\ pc = "painting"
    /\ Top.at = "tagged"
    /\ Top.todo = <<>>
    /\ stack' = [stack EXCEPT ![Len(stack)] =
                    [@ EXCEPT !.at = "untagged",
                              !.todo = SelectNames(after[Top.name], FALSE)]]
    /\ UNCHANGED <<render, mergecall, hlist, calln, cdm, caches, rel, idx, fld, err, pc, writes>>

PaintUntaggedAgain ==
    /\ pc = "painting"
    /\ Top.at = "untagged"
    /\ Top.todo # <<>>
    /\ stack' = Append(stack, Frame(Top.name, Top.is_backstory))
    /\ UNCHANGED <<render, mergecall, hlist, calln, cdm, caches, rel, idx, fld, err, pc, writes>>

\* for ancestor in [untagged parents]: paint(ancestor, is_backstory)
PaintUntagged ==
    /\ pc = "painting"
    /\ Top.at = "untagged"
    /\ Top.todo # <<>>
    /\ stack' = Append([stack EXCEPT ![Len(stack)] = [@ EXCEPT !.todo = Tail(@)]],
                       Frame(Head(Top.todo), Top.is_backstory))
    /\ UNCHANGED <<render, mergecall, hlist, calln, cdm, caches, rel, idx, fld, err, pc, writes>>

\* paint returns; the outermost return ends the call
PaintReturn ==
    /\ pc = "painting"
    /\ Top.at = "untagged"
    /\ Top.todo = <<>>
    /\ stack' = Pop
    /\ pc' = IF Len(stack) = 1 THEN "done" ELSE pc
    /\ UNCHANGED <<render, mergecall, hlist, calln, cdm, caches, rel, idx, fld, err, writes>>

InitBackstory ==
    /\ releases = Identity(NRel)
    /\ after \in Graphs(NRel, BOOLEAN)
    /\ notes = [r \in 1..NRel |-> <<>>]
    /\ rel = [r \in 1..NRel |-> EmptyDict]
    /\ rel0 = rel
    /\ start \in 1..NRel
    /\ fields = <<>>
    /\ idx = 0
    /\ fld = 0
    /\ err = <<>>
    /\ seen = {}
    /\ ancCache = EmptyDict
    /\ ntpCache = EmptyDict
    /\ calln = 0
    /\ hnotes = <<>>
    /\ hkey = ""
    /\ tree = <<>>
    /\ tag = 0
    /\ mexists = FALSE
    /\ mbase = None
    /\ madds = <<>>
    /\ mresult = <<>>
    /\ rtodo = <<>>
    /\ rmarks = {}
    /\ rlog = <<>>
    /\ pc = "ready"
    /\ stack = <<>>
    /\ writes = <<>>

NextBackstory ==
    \/ PaintStart
    \/ PaintWrite
    \/ PaintTagged
    \/ PaintTaggedDone
    \/ PaintUntagged
    \/ PaintReturn

SpecBackstory == InitBackstory /\ [][NextBackstory]_vars

-----------------------------------------------------------------------------
(* Claims about seano_paint_backstory_releases *)

IsBackstory(r) == Get(rel[r], "is-backstory", FALSE) = TRUE

\* C1: after paintBackstoryReleases completes, every ancestor of the start
\* release that is reached from it by at least one path holding a
\* backstory-tagged edge has is-backstory = true, whatever other paths
\* reach it and whatever the order of the parent lists.
C1_StickyTrueWins ==
    pc = "done" =>
        \A y \in Names : TaggedReach(start, y, FALSE) => IsBackstory(y)

\* C2: within one call, once a write has set a release's is-backstory to
\* true, no later write of the call sets it to false.
C2_WritesMonotonic ==
    \A i, j \in 1..Len(writes) :
        (i < j /\ writes[i].name = writes[j].name /\ writes[i].value)
            => writes[j].value

-----------------------------------------------------------------------------
(* seano_paint_release_risk_levels(cdm)                                    *)
(* A note is a dict; the notes here carry at most the key 'risk'.  None is  *)
(* Python's None, a value equal to no string.                              *)

NoteRiskValues == {None, "", "trivial", "low", "medium", "high"}

\* The notes a release can carry: 'risk' missing, or set to one of the values
RiskNoteDicts == {EmptyDict} \cup {Put(EmptyDict, "risk", v) : v \in NoteRiskValues}

\* The lists of at most n elements of S
SeqsUpTo(S, n) == UNION {[1..k -> S] : k \in 0..n}

\* The notes of n releases, each a list over S, at most t notes together
RECURSIVE NoteLists(_, _, _)
NoteLists(n, t, S) ==
    IF n = 0 THEN {<<>>}
    ELSE UNION {{Append(rest, l) : rest \in NoteLists(n - 1, t - Len(l), S)} :
                l \in SeqsUpTo(S, t)}

\* The chain 1 <- 2 <- ... <- n: each release comes after the one before it
Chain(n) ==
    [r \in 1..n |-> IF r = 1 THEN <<>>
                    ELSE <<[name |-> r - 1, backstory |-> FALSE]>>]

\* levels = [x.get('risk') for x in release['notes']]
RiskLevelsOf(ns) == [i \in 1..Len(ns) |-> Get(ns[i], "risk", None)]

\* level in levels
InList(v, lst) == \E i \in 1..Len(lst) : lst[i] = v

LevelsReversed == <<"low", "medium", "high">>

\* for level in ['high', 'medium', 'low']
Levels == <<"high", "medium", "low">>

\* the for-loop: the first level of the list found in levels, None when the
\* loop ends without a break
RECURSIVE FirstLevelIn(_, _)
FirstLevelIn(order, levels) ==
    IF order = <<>> THEN None
    ELSE IF InList(Head(order), levels) THEN Head(order)
    ELSE FirstLevelIn(Tail(order), levels)

ElseValueCollapsed(levels) == ""

\* the else clause: '' if any([x != None for x in levels]) else None
ElseValue(levels) ==
    IF \E i \in 1..Len(levels) : levels[i] # None THEN "" ELSE None

RiskRelease == releases[idx]

\* the call begins: the loop is at the first release
RiskStart ==
    /\ pc = "ready"
    /\ pc' = "risk"
    /\ idx' = 1
    /\ UNCHANGED <<render, mergecall, hlist, calln, cdm, caches, rel, fld, err, stack, writes>>

RiskOverwrite ==
    /\ pc = "risk"
    /\ idx <= Len(releases)
    /\ "risk" \in DOMAIN rel[RiskRelease]
    /\ LET levels == RiskLevelsOf(notes[RiskRelease])
           level == FirstLevelIn(Levels, levels)
           value == IF level # None THEN level ELSE ElseValue(levels)
       IN /\ rel' = [rel EXCEPT ![RiskRelease] = Put(@, "risk", value)]
          /\ writes' = Append(writes, [name |-> RiskRelease, key |-> "risk",
                                       value |-> value])
    /\ idx' = idx + 1
    /\ UNCHANGED <<render, mergecall, hlist, calln, cdm, caches, fld, err, pc, stack>>

\* if 'risk' in release: continue
RiskSkip ==
    /\ pc = "risk"
    /\ idx <= Len(releases)
    /\ "risk" \in DOMAIN rel[RiskRelease]
    /\ idx' = idx + 1
    /\ UNCHANGED <<render, mergecall, hlist, calln, cdm, caches, rel, fld, err, pc, stack, writes>>

\* a level is found: release['risk'] = level; break
RiskRanked ==
    /\ pc = "risk"
    /\ idx <= Len(releases)
    /\ "risk" \notin DOMAIN rel[RiskRelease]
    /\ LET levels == RiskLevelsOf(notes[RiskRelease])
           level == FirstLevelIn(Levels, levels)
       IN /\ level # None
          /\ rel' = [rel EXCEPT ![RiskRelease] = Put(@, "risk", level)]
          /\ writes' = Append(writes, [name |-> RiskRelease, key |-> "risk",
                                       value |-> level])
    /\ idx' = idx + 1
    /\ UNCHANGED <<render, mergecall, hlist, calln, cdm, caches, fld, err, pc, stack>>

\* no level is found: the else clause of the for-loop
RiskUnranked ==
    /\ pc = "risk"
    /\ idx <= Len(releases)
    /\ "risk" \notin DOMAIN rel[RiskRelease]
    /\ LET levels == RiskLevelsOf(notes[RiskRelease])
       IN /\ FirstLevelIn(Levels, levels) = None
          /\ rel' = [rel EXCEPT ![RiskRelease] = Put(@, "risk", ElseValue(levels))]
          /\ writes' = Append(writes, [name |-> RiskRelease, key |-> "risk",
                                       value |-> ElseValue(levels)])
    /\ idx' = idx + 1
    /\ UNCHANGED <<render, mergecall, hlist, calln, cdm, caches, fld, err, pc, stack>>

\* the loop over cdm.releases is over
RiskDone ==
    /\ pc = "risk"
    /\ idx > Len(releases)
    /\ pc' = "done"
    /\ UNCHANGED <<render, mergecall, hlist, calln, cdm, caches, rel, idx, fld, err, stack, writes>>

\* A release may come with an explicit risk (set in seano-config.yaml).
ExplicitRisk == {EmptyDict, Put(EmptyDict, "risk", "low")}

InitRisk ==
    /\ releases = Identity(RiskRel)
    /\ after = Chain(RiskRel)
    /\ notes \in NoteLists(RiskRel, MaxRiskNotes, RiskNoteDicts)
    /\ rel \in [1..RiskRel -> ExplicitRisk]
    /\ rel0 = rel
    /\ start = 1
    /\ fields = <<>>
    /\ idx = 0
    /\ fld = 0
    /\ err = <<>>
    /\ seen = {}
    /\ ancCache = EmptyDict
    /\ ntpCache = EmptyDict
    /\ calln = 0
    /\ hnotes = <<>>
    /\ hkey = ""
    /\ tree = <<>>
    /\ tag = 0
    /\ mexists = FALSE
    /\ mbase = None
    /\ madds = <<>>
    /\ mresult = <<>>
    /\ rtodo = <<>>
    /\ rmarks = {}
    /\ rlog = <<>>
    /\ pc = "ready"
    /\ stack = <<>>
    /\ writes = <<>>

NextRisk ==
    \/ RiskStart
    \/ RiskSkip
    \/ RiskRanked
    \/ RiskUnranked
    \/ RiskDone

SpecRisk == InitRisk /\ [][NextRisk]_vars

-----------------------------------------------------------------------------
(* Claims about seano_paint_release_risk_levels *)

Ranked == {"high", "medium", "low"}

NoteRisks(r) == {Get(notes[r][i], "risk", None) : i \in 1..Len(notes[r])}

\* r came without an explicit risk and none of its notes carries a ranked level
Unranked(r) == "risk" \notin DOMAIN rel0[r] /\ NoteRisks(r) \cap Ranked = {}

\* C8 as stated: a release without an explicit risk whose notes carry no
\* ranked level gets risk '' when some note has a non-null risk, and is left
\* without a 'risk' key when no note declares any risk.
C8_AbsentWhenUndeclared ==
    pc = "done" =>
        \A r \in Names : Unranked(r) =>
            IF NoteRisks(r) \ {None} # {}
            THEN "risk" \in DOMAIN rel[r] /\ rel[r]["risk"] = ""
            ELSE "risk" \notin DOMAIN rel[r]

\* C8 amended: ... and gets risk None (the key present, holding Python's
\* None) when no note declares any risk; a ranked level, '' and None are
\* three different values.
C8_NoneWhenUndeclared ==
    pc = "done" =>
        \A r \in Names : "risk" \notin DOMAIN rel0[r] =>
            /\ "risk" \in DOMAIN rel[r]
            /\ Unranked(r) =>
                  rel[r]["risk"] = (IF NoteRisks(r) \ {None} # {} THEN "" ELSE None)
            /\ ~Unranked(r) => rel[r]["risk"] \in Ranked
            /\ "" \notin Ranked /\ None \notin Ranked /\ None # ""

\* both unranked outcomes happen in one call: notes ['', None] give '' on
\* one release, a note with risk None gives None on another
C8_Witness ==
    /\ pc = "done"
    /\ \E r, q \in Names :
          /\ Unranked(r) /\ NoteRisks(r) = {"", None} /\ rel[r]["risk"] = ""
          /\ Unranked(q) /\ NoteRisks(q) = {None} /\ rel[q]["risk"] = None

\* the highest rank among a set of risk values
HighestOf(S) ==
    IF "high" \in S THEN "high" ELSE IF "medium" \in S THEN "medium" ELSE "low"

\* C9: a release without an explicit risk whose own notes hold a ranked
\* level gets the highest rank present among its own notes (high > medium >
\* low): a function of the set of its own notes' values alone, so neither
\* the order of the notes, nor null or non-ranking values among them, nor
\* anything of its ancestors changes it.
C9_HighestOwnRank ==
    pc = "done" =>
        \A r \in Names :
            ("risk" \notin DOMAIN rel0[r] /\ NoteRisks(r) \cap Ranked # {})
                => /\ "risk" \in DOMAIN rel[r]
                   /\ rel[r]["risk"] = HighestOf(NoteRisks(r))

\* a release whose notes are ['low', 'medium'] gets 'medium' although its
\* parent's note holds 'high' and the parent gets 'high'
C9_Witness ==
    /\ pc = "done"
    /\ \E r \in Names :
          /\ "risk" \notin DOMAIN rel0[r]
          /\ NoteRisks(r) = {"low", "medium"}
          /\ Get(notes[r][1], "risk", None) = "low"
          /\ rel[r]["risk"] = "medium"
          /\ \E p \in Parents(r) :
                "risk" \notin DOMAIN rel0[p] /\ rel[p]["risk"] = "high"

-----------------------------------------------------------------------------
(* seano_field_mergetool_opaque(does_privileged_base_exist,                *)
(*                              privileged_base, additions)                *)
(* The result is [raised |-> FALSE, value |-> v] when it returns v and     *)
(* [raised |-> TRUE, values |-> additions] when it raises                  *)
(* SeanoSchemaPaintingException('Unable to merge values: ...').            *)

Returned(v) == [raised |-> FALSE, value |-> v]

Raised(additions) == [raised |-> TRUE, values |-> additions]

\* all([x == additions[0] for x in additions])
AllSame(additions) == \A i \in 1..Len(additions) : additions[i] = additions[1]

MergeIgnoringBase(exists, base, additions) ==
    IF additions = <<>> \/ ~AllSame(additions) THEN Raised(additions)
    ELSE Returned(additions[1])

MergeFirstAddition(exists, base, additions) ==
    IF exists THEN Returned(base)
    ELSE IF additions = <<>> THEN Raised(additions)
    ELSE Returned(additions[1])

MergeBaseChecked(exists, base, additions) ==
    IF additions = <<>> \/ ~AllSame(additions) THEN Raised(additions)
    ELSE IF exists THEN Returned(base)
    ELSE Returned(additions[1])

MergeRejectBase(exists, base, additions) ==
    IF exists \/ additions = <<>> \/ ~AllSame(additions) THEN Raised(additions)
    ELSE Returned(additions[1])

MergeLastAddition(exists, base, additions) ==
    IF exists THEN Returned(base)
    ELSE IF additions = <<>> THEN Raised(additions)
    ELSE Returned(additions[Len(additions)])

MergeOpaque(exists, base, additions) ==
    IF exists THEN Returned(base)
    ELSE IF additions = <<>> \/ ~AllSame(additions) THEN Raised(additions)
    ELSE Returned(additions[1])

-----------------------------------------------------------------------------
(* seano_copy_note_fields_to_releases(releases, fields)                    *)

\* The values a field takes; the merge tool only compares them
Values == {10, 11}

\* fields = ['min-supported-os', 'max-supported-os']
SysLimitFields == <<"min-supported-os", "max-supported-os">>

\* The fields lists a caller hands over: one of the fields, or both
FieldLists == {<<SysLimitFields[1]>>, SysLimitFields}

FieldNames == {SysLimitFields[i] : i \in 1..Len(SysLimitFields)}

\* The dicts that hold some of the fields, with values from vs
FieldDicts(vs) == UNION {[ks -> vs] : ks \in SUBSET FieldNames}

\* [n[f] for n in r['notes'] if f in n]
RECURSIVE NoteValues(_, _)
NoteValues(ns, f) ==
    IF ns = <<>> THEN <<>>
    ELSE IF f \in DOMAIN Head(ns) THEN <<Head(ns)[f]>> \o NoteValues(Tail(ns), f)
    ELSE NoteValues(Tail(ns), f)

CopyRelease == releases[idx]

CopyField == fields[fld]

\* the next iteration of  for r in releases: for f in fields.keys()
NextIdx == IF fld = Len(fields) THEN idx + 1 ELSE idx

NextFld == IF fld = Len(fields) THEN 1 ELSE fld + 1

CopyValuesOfFirst == NoteValues(notes[releases[1]], CopyField)

\* values = [n[f] for n in r['notes'] if f in n]
CopyValues == NoteValues(notes[CopyRelease], CopyField)

\* fields[f](does_privileged_base_exist=f in r, privileged_base=r.get(f),
\*           additions=values)
CopyMerged ==
    MergeOpaque(CopyField \in DOMAIN rel[CopyRelease],
                Get(rel[CopyRelease], CopyField, None),
                CopyValues)

\* the call begins: both loops are at their first element
CopyStart ==
    /\ pc = "ready"
    /\ pc' = "copy"
    /\ idx' = 1
    /\ fld' = 1
    /\ UNCHANGED <<render, mergecall, hlist, calln, cdm, caches, rel, err, stack, writes>>

\* no note of the release carries the field: nothing is done
CopyNothing ==
    /\ pc = "copy"
    /\ idx <= Len(releases)
    /\ CopyValues = <<>>
    /\ idx' = NextIdx
    /\ fld' = NextFld
    /\ UNCHANGED <<render, mergecall, hlist, calln, cdm, caches, rel, err, pc, stack, writes>>

\* r[f] = the merged value
CopyWrite ==
    /\ pc = "copy"
    /\ idx <= Len(releases)
    /\ CopyValues # <<>>
    /\ ~CopyMerged.raised
    /\ rel' = [rel EXCEPT ![CopyRelease] = Put(@, CopyField, CopyMerged.value)]
    /\ writes' = Append(writes, [name |-> CopyRelease, key |-> CopyField,
                                 value |-> CopyMerged.value])
    /\ idx' = NextIdx
    /\ fld' = NextFld
    /\ UNCHANGED <<render, mergecall, hlist, calln, cdm, caches, err, pc, stack>>

CopySwallow ==
    /\ pc = "copy"
    /\ idx <= Len(releases)
    /\ CopyValues # <<>>
    /\ CopyMerged.raised
    /\ idx' = NextIdx
    /\ fld' = NextFld
    /\ UNCHANGED <<render, mergecall, hlist, calln, cdm, caches, rel, err, pc, stack, writes>>

\* a raise that would put every release back to what it was before the call
CopyRaiseRollback ==
    /\ pc = "copy"
    /\ idx <= Len(releases)
    /\ CopyValues # <<>>
    /\ CopyMerged.raised
    /\ err' = [release |-> CopyRelease, field |-> CopyField,
               values |-> CopyMerged.values]
    /\ rel' = rel0
    /\ pc' = "raised"
    /\ UNCHANGED <<render, mergecall, hlist, calln, cdm, caches, idx, fld, stack, writes>>

\* the merge tool raises: the message gets the release and the field, and
\* the exception leaves the call
CopyRaise ==
    /\ pc = "copy"
    /\ idx <= Len(releases)
    /\ CopyValues # <<>>
    /\ CopyMerged.raised
    /\ err' = [release |-> CopyRelease, field |-> CopyField,
               values |-> CopyMerged.values]
    /\ pc' = "raised"
    /\ UNCHANGED <<render, mergecall, hlist, calln, cdm, caches, rel, idx, fld, stack, writes>>

\* the loop over the releases is over
CopyDone ==
    /\ pc = "copy"
    /\ idx > Len(releases)
    /\ pc' = "done"
    /\ UNCHANGED <<render, mergecall, hlist, calln, cdm, caches, rel, idx, fld, err, stack, writes>>

\* A release may come with fields set explicitly (in seano-config.yaml).
InitCopy ==
    /\ releases = Identity(CopyRel)
    /\ after = Chain(CopyRel)
    /\ notes \in NoteLists(CopyRel, MaxCopyNotes, FieldDicts(Values))
    /\ rel \in [1..CopyRel -> FieldDicts({11})]
    /\ rel0 = rel
    /\ start = 1
    /\ fields \in FieldLists
    /\ idx = 0
    /\ fld = 0
    /\ err = <<>>
    /\ seen = {}
    /\ ancCache = EmptyDict
    /\ ntpCache = EmptyDict
    /\ calln = 0
    /\ hnotes = <<>>
    /\ hkey = ""
    /\ tree = <<>>
    /\ tag = 0
    /\ mexists = FALSE
    /\ mbase = None
    /\ madds = <<>>
    /\ mresult = <<>>
    /\ rtodo = <<>>
    /\ rmarks = {}
    /\ rlog = <<>>
    /\ pc = "ready"
    /\ stack = <<>>
    /\ writes = <<>>

NextCopy ==
    \/ CopyStart
    \/ CopyNothing
    \/ CopyWrite
    \/ CopyRaise
    \/ CopyDone

SpecCopy == InitCopy /\ [][NextCopy]_vars

-----------------------------------------------------------------------------
(* Claims about seano_copy_note_fields_to_releases *)

Requested == {fields[i] : i \in 1..Len(fields)}

\* two notes of r carry different values of f
NotesDisagree(r, f) ==
    \E i, j \in 1..Len(notes[r]) :
        /\ f \in DOMAIN notes[r][i]
        /\ f \in DOMAIN notes[r][j]
        /\ notes[r][i][f] # notes[r][j][f]

\* C3: for a requested field F, a release without F two of whose notes carry
\* different values of F makes the call raise the conflict error (a call
\* that ends without an error met no such release, and an error is raised
\* only at such a release); a release that already holds F raises nothing
\* and keeps its F, whatever its notes carry.
C3_ConflictUnlessExplicit ==
    /\ pc = "done" =>
          \A r \in Names : \A f \in Requested :
              ~(f \notin DOMAIN rel0[r] /\ NotesDisagree(r, f))
    /\ pc = "raised" =>
          /\ err.field \notin DOMAIN rel0[err.release]
          /\ NotesDisagree(err.release, err.field)
    /\ \A r \in Names : \A f \in DOMAIN rel0[r] :
          f \in DOMAIN rel[r] /\ rel[r][f] = rel0[r][f]

\* one release holds an explicit first field, its two notes disagree on both
\* fields: the first field was merged and kept, the second raised
C3_Witness ==
    /\ pc = "raised"
    /\ Len(fields) = 2
    /\ \E r \in Names :
          /\ err.release = r
          /\ err.field = fields[2]
          /\ fields[1] \in DOMAIN rel0[r]
          /\ NotesDisagree(r, fields[1])
          /\ writes # <<>>
          /\ writes[Len(writes)] =
                [name |-> r, key |-> fields[1], value |-> rel0[r][fields[1]]]

-----------------------------------------------------------------------------
(* seano_propagate_sticky_release_fields(releases, fields): the memoized   *)
(* helpers.  A call of a helper is given the cache and gives back its      *)
(* result together with the cache as the call leaves it.                   *)

\* [x['name'] for x in releases_lookup[node]['after']]
ParentNames(node) == [i \in 1..Len(after[node]) |-> after[node][i].name]

\* get_ancestor_inheritance(node): the cached set, or {node} joined with
\* the results for the parents, which is then cached
RECURSIVE GetAncestorInheritance(_, _), AncestorUnion(_, _, _)
GetAncestorInheritance(cache, node) ==
    IF node \in DOMAIN cache THEN [cache |-> cache, result |-> cache[node]]
    ELSE LET sub == AncestorUnion(cache, ParentNames(node), {node})
         IN [cache |-> Put(sub.cache, node, sub.result), result |-> sub.result]

\* set([node]).union(*map(get_ancestor_inheritance, names))
AncestorUnion(cache, names, acc) ==
    IF names = <<>> THEN [cache |-> cache, result |-> acc]
    ELSE LET one == GetAncestorInheritance(cache, Head(names))
         IN AncestorUnion(one.cache, Tail(names), acc \cup one.result)

\* list.remove(x): the first occurrence of x leaves the list
RECURSIVE ListRemove(_, _)
ListRemove(lst, x) ==
    IF lst = <<>> THEN <<>>
    ELSE IF Head(lst) = x THEN Tail(lst)
    ELSE <<Head(lst)>> \o ListRemove(Tail(lst), x)

OthersWithSelf(result, candidate) == result

\* [x for x in result if x != candidate]
RECURSIVE Others(_, _)
Others(result, candidate) ==
    IF result = <<>> THEN <<>>
    ELSE IF Head(result) # candidate
         THEN <<Head(result)>> \o Others(Tail(result), candidate)
         ELSE Others(Tail(result), candidate)

\* one iteration of  for candidate in list(result):  the candidate leaves
\* result when it is in the ancestor inheritance of another element that is
\* still in result
ReduceStep(cache, result, candidate) ==
    LET sub == AncestorUnion(cache, Others(result, candidate), {})
    IN [cache |-> sub.cache,
        result |-> IF candidate \in sub.result THEN ListRemove(result, candidate)
                   ELSE result]

\* the whole loop over the copy of the parent list
RECURSIVE ReduceLoop(_, _, _)
ReduceLoop(cache, result, candidates) ==
    IF candidates = <<>> THEN [cache |-> cache, result |-> result]
    ELSE LET one == ReduceStep(cache, result, Head(candidates))
         IN ReduceLoop(one.cache, one.result, Tail(candidates))

GetAllParents(anc, ntp, node) ==
    [anc |-> anc, ntp |-> Put(ntp, node, ParentNames(node)),
     result |-> ParentNames(node)]

\* get_non_transitive_parents(node), given both caches
GetNonTransitiveParents(anc, ntp, node) ==
    IF node \in DOMAIN ntp THEN [anc |-> anc, ntp |-> ntp, result |-> ntp[node]]
    ELSE LET loop == ReduceLoop(anc, ParentNames(node), ParentNames(node))
         IN [anc |-> loop.cache, ntp |-> Put(ntp, node, loop.result),
             result |-> loop.result]

-----------------------------------------------------------------------------
(* get_non_transitive_parents(node), one loop iteration at a time, for a   *)
(* node that is not cached.  The frame holds result and the rest of the    *)
(* copied list the loop iterates.                                          *)

\* result = [r['name'] for r in releases_lookup[node]['after']]
ReduceCall ==
    /\ pc = "ready"
    /\ start \notin DOMAIN ntpCache
    /\ stack' = <<[node |-> start, result |-> ParentNames(start),
                   todo |-> ParentNames(start)]>>
    /\ pc' = "reduce"
    /\ UNCHANGED <<render, mergecall, hlist, calln, cdm, caches, rel, idx, fld, err, writes>>

\* for candidate in list(result): ... result.remove(candidate)
ReduceCandidate ==
    /\ pc = "reduce"
    /\ Top.todo # <<>>
    /\ LET one == ReduceStep(ancCache, Top.result, Head(Top.todo))
       IN /\ ancCache' = one.cache
          /\ stack' = <<[Top EXCEPT !.result = one.result, !.todo = Tail(@)]>>
    /\ UNCHANGED <<render, mergecall, hlist, calln, cdm, seen, ntpCache, rel, idx, fld, err, pc, writes>>

\* _non_transitive_parents[node] = result; return result
ReduceReturn ==
    /\ pc = "reduce"
    /\ Top.todo = <<>>
    /\ ntpCache' = Put(ntpCache, Top.node, Top.result)
    /\ stack' = <<>>
    /\ pc' = "done"
    /\ UNCHANGED <<render, mergecall, hlist, calln, cdm, seen, ancCache, rel, idx, fld, err, writes>>

InitReduce ==
    /\ releases = Identity(RedRel)
    /\ after \in Graphs(RedRel, {FALSE})
    /\ notes = [r \in 1..RedRel |-> <<>>]
    /\ rel = [r \in 1..RedRel |-> EmptyDict]
    /\ rel0 = rel
    /\ start \in 1..RedRel
    /\ fields = SysLimitFields
    /\ idx = 0
    /\ fld = 0
    /\ err = <<>>
    /\ seen = {}
    /\ ancCache = EmptyDict
    /\ ntpCache = EmptyDict
    /\ calln = 0
    /\ hnotes = <<>>
    /\ hkey = ""
    /\ tree = <<>>
    /\ tag = 0
    /\ mexists = FALSE
    /\ mbase = None
    /\ madds = <<>>
    /\ mresult = <<>>
    /\ rtodo = <<>>
    /\ rmarks = {}
    /\ rlog = <<>>
    /\ pc = "ready"
    /\ stack = <<>>
    /\ writes = <<>>

NextReduce ==
    \/ ReduceCall
    \/ ReduceCandidate
    \/ ReduceReturn

SpecReduce == InitReduce /\ [][NextReduce]_vars

-----------------------------------------------------------------------------
(* Claims about get_non_transitive_parents *)

\* p is in the ancestor-closure of a direct parent of r other than p
Redundant(r, p) == \E q \in Parents(r) : q # p /\ p \in AncestorsOrSelf(q)

\* the elements of lst that are not redundant parents of r, in their order
RECURSIVE Irredundant(_, _)
Irredundant(r, lst) ==
    IF lst = <<>> THEN <<>>
    ELSE IF Redundant(r, Head(lst)) THEN Irredundant(r, Tail(lst))
    ELSE <<Head(lst)>> \o Irredundant(r, Tail(lst))

NonTransitiveParents(r) == Irredundant(r, ParentNames(r))

\* C6: for every release of every acyclic graph and every order of its
\* parent list, get_non_transitive_parents gives the direct parents, in
\* their order, without exactly those that belong to the ancestor-closure
\* of a different direct parent; a parent never leaves because of its own
\* closure.
C6_NonTransitiveParents ==
    pc = "done" => ntpCache[start] = NonTransitiveParents(start)

\* the diamond 1 <- 2 <- 4, 1 <- 3 <- 4: the result for 4 is [2, 3]
C6_Witness ==
    /\ pc = "done"
    /\ start = 4
    /\ ParentNames(4) = <<2, 3>>
    /\ ParentNames(3) = <<1>>
    /\ ParentNames(2) = <<1>>
    /\ ntpCache[4] = <<2, 3>>

\* a parent list from which the loop removes two of three: 1 <- 2 <- 3,
\* and 4 lists [2, 1, 3]
C6_WitnessRemoval ==
    /\ pc = "done"
    /\ start = 4
    /\ ParentNames(4) = <<2, 1, 3>>
    /\ ParentNames(3) = <<2>>
    /\ ParentNames(2) = <<1>>
    /\ ntpCache[4] = <<3>>

-----------------------------------------------------------------------------
(* seano_propagate_sticky_release_fields(releases, fields)                 *)
(* A frame of process_release(release): todo holds the parents the first   *)
(* loop has still to recurse into, f the position of the loop over fields. *)

StickyFrameNoParents(name) == [name |-> name, todo |-> <<>>, f |-> 1]

StickyFrameFirstParent(name) ==
    [name |-> name,
     todo |-> IF ParentNames(name) = <<>> THEN <<>> ELSE <<Head(ParentNames(name))>>,
     f |-> 1]

StickyFrame(name) == [name |-> name, todo |-> ParentNames(name), f |-> 1]

\* [r[f] for r in values if f in r], values being the releases named
RECURSIVE ParentValues(_, _)
ParentValues(names, f) ==
    IF names = <<>> THEN <<>>
    ELSE IF f \in DOMAIN rel[Head(names)]
         THEN <<rel[Head(names)][f]>> \o ParentValues(Tail(names), f)
         ELSE ParentValues(Tail(names), f)

\* values = get_non_transitive_parents(release['name']) for the running frame
StickyParents == GetNonTransitiveParents(ancCache, ntpCache, Top.name)

StickyField == fields[Top.f]

StickyValues == ParentValues(StickyParents.result, StickyField)

StickyMerged ==
    MergeOpaque(StickyField \in DOMAIN rel[Top.name],
                Get(rel[Top.name], StickyField, None),
                StickyValues)

\* the call begins with empty caches; the loop runs over reversed(releases)
StickyStart ==
    /\ pc = "ready"
    /\ pc' = "sticky"
    /\ idx' = Len(releases)
    /\ seen' = {}
    /\ ancCache' = EmptyDict
    /\ ntpCache' = EmptyDict
    /\ UNCHANGED <<render, mergecall, hlist, calln, cdm, rel, fld, err, stack, writes>>

\* for r in reversed(releases): process_release(r), r not seen before
StickyLoopCall ==
    /\ pc = "sticky"
    /\ stack = <<>>
    /\ idx >= 1
    /\ releases[idx] \notin seen
    /\ seen' = seen \cup {releases[idx]}
    /\ stack' = <<StickyFrame(releases[idx])>>
    /\ idx' = idx - 1
    /\ UNCHANGED <<render, mergecall, hlist, calln, cdm, ancCache, ntpCache, rel, fld, err, pc, writes>>

\* process_release(r) returns at once: r is in _seen_releases
StickyLoopSeen ==
    /\ pc = "sticky"
    /\ stack = <<>>
    /\ idx >= 1
    /\ releases[idx] \in seen
    /\ idx' = idx - 1
    /\ UNCHANGED <<render, mergecall, hlist, calln, cdm, caches, rel, fld, err, pc, stack, writes>>

\* for r in release['after']: process_release(...), the parent not seen before
StickyParentCall ==
    /\ pc = "sticky"
    /\ stack # <<>>
    /\ Top.todo # <<>>
    /\ Head(Top.todo) \notin seen
    /\ seen' = seen \cup {Head(Top.todo)}
    /\ stack' = Append([stack EXCEPT ![Len(stack)] = [@ EXCEPT !.todo = Tail(@)]],
                       StickyFrame(Head(Top.todo)))
    /\ UNCHANGED <<render, mergecall, hlist, calln, cdm, ancCache, ntpCache, rel, idx, fld, err, pc, writes>>

\* the parent is in _seen_releases: the recursive call returns at once
StickyParentSeen ==
    /\ pc = "sticky"
    /\ stack # <<>>
    /\ Top.todo # <<>>
    /\ Head(Top.todo) \in seen
    /\ stack' = [stack EXCEPT ![Len(stack)] = [@ EXCEPT !.todo = Tail(@)]]
    /\ UNCHANGED <<render, mergecall, hlist, calln, cdm, caches, rel, idx, fld, err, pc, writes>>

\* for f in fields: no non-transitive parent carries f
StickyNothing ==
    /\ pc = "sticky"
    /\ stack # <<>>
    /\ Top.todo = <<>>
    /\ Top.f <= Len(fields)
    /\ StickyValues = <<>>
    /\ ancCache' = StickyParents.anc
    /\ ntpCache' = StickyParents.ntp
    /\ stack' = [stack EXCEPT ![Len(stack)] = [@ EXCEPT !.f = @ + 1]]
    /\ UNCHANGED <<render, mergecall, hlist, calln, cdm, seen, rel, idx, fld, err, pc, writes>>

\* release[f] = the merged value
StickyWrite ==
    /\ pc = "sticky"
    /\ stack # <<>>
    /\ Top.todo = <<>>
    /\ Top.f <= Len(fields)
    /\ StickyValues # <<>>
    /\ ~StickyMerged.raised
    /\ ancCache' = StickyParents.anc
    /\ ntpCache' = StickyParents.ntp
    /\ rel' = [rel EXCEPT ![Top.name] = Put(@, StickyField, StickyMerged.value)]
    /\ writes' = Append(writes, [name |-> Top.name, key |-> StickyField,
                                 value |-> StickyMerged.value])
    /\ stack' = [stack EXCEPT ![Len(stack)] = [@ EXCEPT !.f = @ + 1]]
    /\ UNCHANGED <<render, mergecall, hlist, calln, cdm, seen, idx, fld, err, pc>>

\* the merge tool raises: the message gets the release and the field, and
\* the exception unwinds every frame and leaves the call
StickyRaise ==
    /\ pc = "sticky"
    /\ stack # <<>>
    /\ Top.todo = <<>>
    /\ Top.f <= Len(fields)
    /\ StickyValues # <<>>
    /\ StickyMerged.raised
    /\ ancCache' = StickyParents.anc
    /\ ntpCache' = StickyParents.ntp
    /\ err' = [release |-> Top.name, field |-> StickyField,
               values |-> StickyMerged.values]
    /\ stack' = <<>>
    /\ pc' = "raised"
    /\ UNCHANGED <<render, mergecall, hlist, calln, cdm, seen, rel, idx, fld, writes>>

\* process_release returns
StickyReturn ==
    /\ pc = "sticky"
    /\ stack # <<>>
    /\ Top.todo = <<>>
    /\ Top.f > Len(fields)
    /\ stack' = Pop
    /\ UNCHANGED <<render, mergecall, hlist, calln, cdm, caches, rel, idx, fld, err, pc, writes>>

\* the loop over reversed(releases) is over
StickyDone ==
    /\ pc = "sticky"
    /\ stack = <<>>
    /\ idx = 0
    /\ pc' = "done"
    /\ UNCHANGED <<render, mergecall, hlist, calln, cdm, caches, rel, idx, fld, err, stack, writes>>

\* The orders of a releases list of n releases
ReleaseLists(n) == {s \in [1..n -> 1..n] : \A i, j \in 1..n : i # j => s[i] # s[j]}

InitSticky ==
    /\ releases \in ReleaseLists(StickyRel)
    /\ after \in Graphs(StickyRel, {FALSE})
    /\ notes = [r \in 1..StickyRel |-> <<>>]
    /\ rel \in [1..StickyRel -> FieldDicts(Values)]
    /\ rel0 = rel
    /\ start = 1
    /\ fields = SysLimitFields
    /\ idx = 0
    /\ fld = 0
    /\ err = <<>>
    /\ seen = {}
    /\ ancCache = EmptyDict
    /\ ntpCache = EmptyDict
    /\ calln = 0
    /\ hnotes = <<>>
    /\ hkey = ""
    /\ tree = <<>>
    /\ tag = 0
    /\ mexists = FALSE
    /\ mbase = None
    /\ madds = <<>>
    /\ mresult = <<>>
    /\ rtodo = <<>>
    /\ rmarks = {}
    /\ rlog = <<>>
    /\ pc = "ready"
    /\ stack = <<>>
    /\ writes = <<>>

StickySteps ==
    \/ StickyLoopCall
    \/ StickyLoopSeen
    \/ StickyParentCall
    \/ StickyParentSeen
    \/ StickyNothing
    \/ StickyWrite
    \/ StickyRaise
    \/ StickyReturn
    \/ StickyDone

NextSticky == StickyStart \/ StickySteps

SpecSticky == InitSticky /\ [][NextSticky]_vars

-----------------------------------------------------------------------------
(* Claims about seano_propagate_sticky_release_fields *)

\* the non-transitive parents of r that carry f, now
Carriers(r, f) ==
    {p \in Parents(r) : ~Redundant(r, p) /\ f \in DOMAIN rel[p]}

\* C4: after a successful propagateStickyReleaseFields, for every requested
\* field F and release R: R keeps the F it held before the call; otherwise,
\* when some non-transitive parent of R carries F, R.F is the common value
\* of those parents; otherwise R has no F.  (Values flow through releases
\* that lacked the field.)
C4_StickyResult ==
    pc = "done" =>
        \A r \in Names : \A f \in Requested :
            IF f \in DOMAIN rel0[r]
            THEN f \in DOMAIN rel[r] /\ rel[r][f] = rel0[r][f]
            ELSE IF Carriers(r, f) # {}
            THEN /\ f \in DOMAIN rel[r]
                 /\ \A p \in Carriers(r, f) : rel[r][f] = rel[p][f]
            ELSE f \notin DOMAIN rel[r]

\* the chain 1 <- 2 <- 3, the first field 10 on release 1 alone: releases 2
\* and 3 end with 10
C4_Witness ==
    /\ pc = "done"
    /\ after = Chain(StickyRel)
    /\ rel0[1] = Put(EmptyDict, fields[1], 10)
    /\ rel0[2] = EmptyDict
    /\ rel0[3] = EmptyDict
    /\ rel[2] = Put(EmptyDict, fields[1], 10)
    /\ rel[3] = Put(EmptyDict, fields[1], 10)

\* C5: a direct parent of D that is also reached through another direct
\* parent of D does not contribute to D.  A conflict at D is one between
\* the values of D's non-transitive parents, of which two differ; and when
\* D has no F of its own and all its direct parents but P are ancestors of
\* P, D receives P.F, whatever F those ancestors hold.
C5_RedundantParentIgnored ==
    /\ pc = "raised" =>
          LET vs == ParentValues(NonTransitiveParents(err.release), err.field)
          IN /\ err.values = vs
             /\ ~AllSame(vs)
             /\ err.field \notin DOMAIN rel[err.release]
    /\ pc = "done" =>
          \A d \in Names : \A f \in Requested : \A p \in Parents(d) :
              (/\ f \notin DOMAIN rel0[d]
               /\ NonTransitiveParents(d) = <<p>>
               /\ f \in DOMAIN rel[p])
                  => f \in DOMAIN rel[d] /\ rel[d][f] = rel[p][f]

\* release 3 lists 2 and 1 as parents, 1 is the parent of 2, 1 holds 10
\* and 2 overrides with 11: release 3 ends with 11 and nothing is raised
C5_Witness ==
    /\ pc = "done"
    /\ Parents(3) = {1, 2}
    /\ Parents(2) = {1}
    /\ fields[1] \notin DOMAIN rel0[3]
    /\ Holds(rel0[1], fields[1], 10)
    /\ Holds(rel0[2], fields[1], 11)
    /\ Holds(rel[3], fields[1], 11)

-----------------------------------------------------------------------------
(* seano_paint_release_sys_limits(cdm)                                     *)
(* The two calls it makes, in their order; each runs as modelled above on  *)
(* the same releases, and an exception of the first leaves the function.   *)

SysLimitCallsSwapped == <<"propagate", "copy">>

\* seano_copy_note_fields_to_releases(cdm, fields)
\* seano_propagate_sticky_release_fields(cdm, fields)
SysLimitCalls == <<"copy", "propagate">>

\* the next call is made once the function begins or the call before returns
SysNextCall(name) ==
    /\ pc = IF calln = 0 THEN "ready" ELSE "done"
    /\ calln < Len(SysLimitCalls)
    /\ SysLimitCalls[calln + 1] = name
    /\ calln' = calln + 1

SysCopy ==
    /\ SysNextCall("copy")
    /\ pc' = "copy"
    /\ idx' = 1
    /\ fld' = 1
    /\ UNCHANGED <<render, mergecall, hlist, cdm, caches, rel, err, stack, writes>>

SysPropagate ==
    /\ SysNextCall("propagate")
    /\ pc' = "sticky"
    /\ idx' = Len(releases)
    /\ seen' = {}
    /\ ancCache' = EmptyDict
    /\ ntpCache' = EmptyDict
    /\ UNCHANGED <<render, mergecall, hlist, cdm, rel, fld, err, stack, writes>>

\* In the notes and on the releases handed over here only the first of the
\* two fields occurs.
FirstFieldDicts(vs) == {EmptyDict} \cup {Put(EmptyDict, SysLimitFields[1], v) : v \in vs}

InitSysLimits ==
    /\ releases = Identity(SysRel)
    /\ after \in Graphs(SysRel, {FALSE})
    /\ notes \in NoteLists(SysRel, MaxSysNotes, FirstFieldDicts(Values))
    /\ rel \in [1..SysRel -> FirstFieldDicts({11})]
    /\ rel0 = rel
    /\ start = 1
    /\ fields = SysLimitFields
    /\ idx = 0
    /\ fld = 0
    /\ err = <<>>
    /\ seen = {}
    /\ ancCache = EmptyDict
    /\ ntpCache = EmptyDict
    /\ calln = 0
    /\ hnotes = <<>>
    /\ hkey = ""
    /\ tree = <<>>
    /\ tag = 0
    /\ mexists = FALSE
    /\ mbase = None
    /\ madds = <<>>
    /\ mresult = <<>>
    /\ rtodo = <<>>
    /\ rmarks = {}
    /\ rlog = <<>>
    /\ pc = "ready"
    /\ stack = <<>>
    /\ writes = <<>>

CopySteps ==
    \/ CopyNothing
    \/ CopyWrite
    \/ CopyRaise
    \/ CopyDone

NextSysLimits ==
    \/ SysCopy
    \/ SysPropagate
    \/ CopySteps
    \/ StickySteps

SpecSysLimits == InitSysLimits /\ [][NextSysLimits]_vars

-----------------------------------------------------------------------------
(* Claims about seano_paint_release_sys_limits *)

SysDone == pc = "done" /\ calln = Len(SysLimitCalls)

\* r has no explicit f, some note of r carries f and all that do carry v
OwnNotesSay(r, f, v) ==
    /\ f \notin DOMAIN rel0[r]
    /\ NoteValues(notes[r], f) # <<>>
    /\ \A i \in 1..Len(notes[r]) : f \in DOMAIN notes[r][i] => notes[r][i][f] = v

\* r has no explicit f and none of its notes carries f
NoOwnValue(r, f) == f \notin DOMAIN rel0[r] /\ NoteValues(notes[r], f) = <<>>

\* C7: with Field Copy run before Sticky Propagation on the same field F, a
\* release with no explicit F whose own notes all carry v ends with F = v
\* whatever its parents carry, no conflict is raised at that release, and a
\* release without a value of its own, of which it is a non-transitive
\* parent, inherits v.
C7_OwnNotesFirst ==
    \A r \in Names : \A f \in Requested : \A v \in Values :
        OwnNotesSay(r, f, v) =>
            /\ pc = "raised" => ~(err.release = r /\ err.field = f)
            /\ SysDone =>
                  /\ f \in DOMAIN rel[r] /\ rel[r][f] = v
                  /\ \A d \in Names :
                        (NoOwnValue(d, f) /\ r \in Parents(d) /\ ~Redundant(d, r))
                            => f \in DOMAIN rel[d] /\ rel[d][f] = v

\* the chain 1 <- 2 <- 3: release 1 holds 11, the notes of release 2 say 10,
\* release 3 has nothing of its own; releases 2 and 3 end with 10
C7_Witness ==
    /\ SysDone
    /\ after = Chain(SysRel)
    /\ Holds(rel0[1], fields[1], 11)
    /\ OwnNotesSay(2, fields[1], 10)
    /\ NoOwnValue(3, fields[1])
    /\ Holds(rel[1], fields[1], 11)
    /\ Holds(rel[2], fields[1], 10)
    /\ Holds(rel[3], fields[1], 10)

-----------------------------------------------------------------------------
(* seano_cascade_hlist(notes, key)                                         *)
(* The values that come from yaml: a string, a list, a dict (its items in  *)
(* their order).  A node of the result is a dict {'head', 'tags',          *)
(* 'children'}.                                                            *)

Str(l) == [t |-> "str", s |-> l]

List(items) == [t |-> "list", items |-> items]

Dict(items) == [t |-> "dict", items |-> items]

\* the dict with one key
Dict1(head, sub) == Dict(<<[head |-> head, sub |-> sub]>>)

\* The labels of the notes, and the characters of each
Labels == {"a", "xy"}

Chars(l) == IF l = "xy" THEN <<"x", "y">> ELSE <<l>>

\* for x in v: the elements of a list, the characters of a string, the keys
\* of a dict
Iter(v) ==
    IF v.t = "list" THEN v.items
    ELSE IF v.t = "str" THEN [i \in 1..Len(Chars(v.s)) |-> Str(Chars(v.s)[i])]
    ELSE [i \in 1..Len(v.items) |-> Str(v.items[i].head)]

\* the position of the first child whose head is label, 0 when there is none
RECURSIVE FindHead(_, _, _)
FindHead(children, label, i) ==
    IF i > Len(children) THEN 0
    ELSE IF children[i].head = label THEN i
    ELSE FindHead(children, label, i + 1)

NewNode(label, t) == [head |-> label, tags |-> <<t>>, children |-> <<>>]

AddStrAlwaysNew(children, label, t) == Append(children, NewNode(label, t))

\* add_or_append(dst, obj, tag) for a str obj, as dst['children'] after it
AddStr(children, label, t) ==
    LET i == FindHead(children, label, 1)
    IN IF i # 0 THEN [children EXCEPT ![i].tags = Append(@, t)]
       ELSE Append(children, NewNode(label, t))

\* add_or_append(dst, obj, tag), as dst['children'] after it
RECURSIVE AddObj(_, _, _), AddItems(_, _, _), AddAll(_, _, _)
AddObj(children, obj, t) ==
    IF obj.t = "dict" THEN AddItems(children, obj.items, t)
    ELSE AddStr(children, obj.s, t)

\* for head, subheads in obj.items(): node = add_or_append(dst, head, tag);
\* for subhead in subheads: add_or_append(node, subhead, tag)
AddItems(children, items, t) ==
    IF items = <<>> THEN children
    ELSE LET withHead == AddStr(children, Head(items).head, t)
             i == FindHead(withHead, Head(items).head, 1)
             below == AddAll(withHead[i].children, Iter(Head(items).sub), t)
         IN AddItems([withHead EXCEPT ![i].children = below], Tail(items), t)

\* for x in objs: add_or_append(dst, x, tag)
AddAll(children, objs, t) ==
    IF objs = <<>> THEN children
    ELSE AddAll(AddObj(children, Head(objs), t), Tail(objs), t)

\* x or default
Falsy(v) == v.t \in {"list", "dict"} /\ v.items = <<>>

\* (n.get(key, None) or {}).get('en-US', None) or []
Bullets(n) ==
    IF hkey \notin DOMAIN n THEN <<>>
    ELSE IF "en-US" \notin DOMAIN n[hkey] THEN <<>>
    ELSE IF Falsy(n[hkey]["en-US"]) THEN <<>>
    ELSE Iter(n[hkey]["en-US"])

NextTagCompacted(t, n) == IF Bullets(n) = <<>> THEN t ELSE t + 1

\* tag = tag + 1, for every note n
NextTag(t, n) == t + 1

\* lst = {'children': []}; tag = 0
HlistStart ==
    /\ pc = "ready"
    /\ pc' = "hlist"
    /\ tree' = <<>>
    /\ tag' = 0
    /\ idx' = 1
    /\ UNCHANGED <<render, mergecall, hnotes, hkey, calln, cdm, caches, rel, fld, err, stack, writes>>

\* for n in notes: tag = tag + 1; for bullet in ...: add_or_append(lst, bullet, tag)
HlistNote ==
    /\ pc = "hlist"
    /\ idx <= Len(hnotes)
    /\ tag' = NextTag(tag, hnotes[idx])
    /\ tree' = AddAll(tree, Bullets(hnotes[idx]), tag')
    /\ idx' = idx + 1
    /\ UNCHANGED <<render, mergecall, hnotes, hkey, calln, cdm, caches, rel, fld, err, pc, stack, writes>>

\* return lst['children']
HlistReturn ==
    /\ pc = "hlist"
    /\ idx > Len(hnotes)
    /\ pc' = "done"
    /\ UNCHANGED <<render, mergecall, hlist, calln, cdm, caches, rel, idx, fld, err, stack, writes>>

\* The number of labels written in a value
RECURSIVE Size(_), SizeAll(_)
Size(v) ==
    IF v.t = "str" THEN 1
    ELSE IF v.t = "list" THEN SizeAll(v.items)
    ELSE SizeAll([i \in 1..Len(v.items) |-> v.items[i].sub]) + Len(v.items)

SizeAll(vs) == IF vs = <<>> THEN 0 ELSE Size(Head(vs)) + SizeAll(Tail(vs))

Strs == {Str(l) : l \in Labels}

\* The lists of bullets from bs that write at most n labels
RECURSIVE SeqsWithin(_, _)
SeqsWithin(bs, n) ==
    {<<>>} \cup UNION {{<<b>> \o rest : rest \in SeqsWithin(bs, n - Size(b))} :
                        b \in {x \in bs : Size(x) <= n}}

ListsOf(bs, n) == {List(s) : s \in SeqsWithin(bs, n)}

\* The bullets that write at most n labels: a label, or a dict
\* {label: string}, {label: list of bullets} or {label: {label: string}}
RECURSIVE BulletsOf(_)
BulletsOf(n) ==
    IF n <= 1 THEN Strs
    ELSE Strs \cup {Dict1(l, v) : l \in Labels,
                        v \in Strs \cup ListsOf(BulletsOf(n - 1), n - 1)
                               \cup {d \in {Dict1(k, w) : k \in Labels, w \in Strs} :
                                        n >= 3}}

\* The hlists a note can hold under a locale: a string or a list of bullets
HLists == Strs \cup ListsOf(BulletsOf(MaxHSize), MaxHSize)

HKeys == {"features", "bugs"}

\* The notes: without the key, with the key but not the locale, or with an
\* hlist under the key and locale.  Notes hold hlists under the first key;
\* two notes hold one under the second key as well.
HNotes ==
    {EmptyDict, Put(EmptyDict, "features", Put(EmptyDict, "de-DE", Str("a")))}
    \cup {Put(n, "bugs", Put(EmptyDict, "en-US", List(<<Str("a")>>))) :
            n \in {EmptyDict,
                   Put(EmptyDict, "features",
                       Put(EmptyDict, "en-US", List(<<Str("xy")>>)))}}
    \cup {Put(EmptyDict, "features", Put(EmptyDict, "en-US", v)) : v \in HLists}

InitHlist ==
    /\ releases = <<>>
    /\ after = <<>>
    /\ notes = <<>>
    /\ rel = <<>>
    /\ rel0 = rel
    /\ start = 1
    /\ fields = <<>>
    /\ idx = 0
    /\ fld = 0
    /\ err = <<>>
    /\ seen = {}
    /\ ancCache = EmptyDict
    /\ ntpCache = EmptyDict
    /\ calln = 0
    /\ hnotes \in SeqsUpTo(HNotes, MaxHNotes)
    /\ hkey \in HKeys
    /\ tree = <<>>
    /\ tag = 0
    /\ mexists = FALSE
    /\ mbase = None
    /\ madds = <<>>
    /\ mresult = <<>>
    /\ rtodo = <<>>
    /\ rmarks = {}
    /\ rlog = <<>>
    /\ pc = "ready"
    /\ stack = <<>>
    /\ writes = <<>>

NextHlist ==
    \/ HlistStart
    \/ HlistNote
    \/ HlistReturn

SpecHlist == InitHlist /\ [][NextHlist]_vars

\* The hlist a note holds under the key and locale, [] when it holds none
HlistOf(n) ==
    IF hkey \in DOMAIN n /\ "en-US" \in DOMAIN n[hkey] THEN n[hkey]["en-US"]
    ELSE List(<<>>)

\* A list of bullets, each a label or a dict of label to such a list
RECURSIVE ListShaped(_)
ListShaped(v) ==
    /\ v.t = "list"
    /\ \A i \in 1..Len(v.items) :
        \/ v.items[i].t = "str"
        \/ /\ v.items[i].t = "dict"
           /\ \A j \in 1..Len(v.items[i].items) :
                ListShaped(v.items[i].items[j].sub)

RECURSIVE Concat(_)
Concat(ss) == IF ss = <<>> THEN <<>> ELSE Head(ss) \o Concat(Tail(ss))

\* The labels a list of bullets mentions, in reading order, each as the path
\* of labels from the top scope down to it
RECURSIVE MentionsAll(_)
MentionsAll(objs) ==
    Concat([i \in 1..Len(objs) |->
        IF objs[i].t = "str" THEN <<(<<objs[i].s>>)>>
        ELSE Concat([j \in 1..Len(objs[i].items) |->
            LET item == objs[i].items[j]
                below == MentionsAll(item.sub.items)
            IN <<(<<item.head>>)>>
               \o [k \in 1..Len(below) |-> <<item.head>> \o below[k]]])])

\* The mentions of the first k notes, in note order
Mentions(k) == Concat([i \in 1..k |-> MentionsAll(HlistOf(hnotes[i]).items)])

Front(p) == SubSeq(p, 1, Len(p) - 1)

\* The labels mentioned directly in a scope, in order, repeats included
LabelsAt(scope, ms) ==
    LET here == SelectSeq(ms, LAMBDA p : Front(p) = scope)
    IN [i \in 1..Len(here) |-> here[i][Len(here[i])]]

\* A sequence without the repeats of what came earlier in it
RECURSIVE FirstAppearances(_)
FirstAppearances(ls) ==
    IF ls = <<>> THEN <<>>
    ELSE LET front == FirstAppearances(Front(ls))
         IN IF \E i \in 1..Len(front) : front[i] = ls[Len(ls)] THEN front
            ELSE Append(front, ls[Len(ls)])

Heads(children) == [i \in 1..Len(children) |-> children[i].head]

RECURSIVE NoTwinSiblings(_)
NoTwinSiblings(children) ==
    /\ \A i, j \in 1..Len(children) :
        children[i].head = children[j].head => i = j
    /\ \A i \in 1..Len(children) : NoTwinSiblings(children[i].children)

RECURSIVE FirstSeenOrder(_, _, _)
FirstSeenOrder(children, scope, ms) ==
    /\ Heads(children) = FirstAppearances(LabelsAt(scope, ms))
    /\ \A i \in 1..Len(children) :
        FirstSeenOrder(children[i].children, Append(scope, children[i].head), ms)

HNote(v) == Put(EmptyDict, "features", Put(EmptyDict, "en-US", v))

MentionedBy(i, path) ==
    LET ms == MentionsAll(HlistOf(hnotes[i]).items)
    IN \E k \in 1..Len(ms) : ms[k] = path

\* The notes among the first k that mention path, each once, increasing
RECURSIVE TagsUpTo(_, _)
TagsUpTo(path, k) ==
    IF k = 0 THEN <<>>
    ELSE IF MentionedBy(k, path) THEN Append(TagsUpTo(path, k - 1), k)
    ELSE TagsUpTo(path, k - 1)

RECURSIVE TagsExact(_, _, _)
TagsExact(children, scope, k) ==
    \A i \in 1..Len(children) :
        /\ children[i].tags = TagsUpTo(Append(scope, children[i].head), k)
        /\ TagsExact(children[i].children, Append(scope, children[i].head), k)

ReadSoFarListShaped == \A i \in 1..(idx - 1) : ListShaped(HlistOf(hnotes[i]))

\* C11: when the notes read so far hold lists of bullets, the tags of every
\* node of the tree are the numbers of the notes that mention its label in
\* its scope, each note once, in increasing order.
C11_TagsOncePerNote ==
    (pc \in {"hlist", "done"} /\ ReadSoFarListShaped)
        => TagsExact(tree, <<>>, idx - 1)

\* Note k holds something under the key and locale
Contributes(k) == ~Falsy(HlistOf(hnotes[k]))

RECURSIVE TagsOfContributors(_)
TagsOfContributors(children) ==
    \A i \in 1..Len(children) :
        /\ \A j \in 1..Len(children[i].tags) :
            /\ children[i].tags[j] \in 1..(idx - 1)
            /\ Contributes(children[i].tags[j])
        /\ TagsOfContributors(children[i].children)

\* C12: the tag in use after the k-th note is k; every tag in the tree is the
\* position of a note that holds something under the key and locale, and
\* every such note read so far has its position among the tags of a top
\* node.  This holds for either key over the same notes.
C12_TagIsNotePosition ==
    pc \in {"hlist", "done"} =>
        /\ tag = idx - 1
        /\ TagsOfContributors(tree)
        /\ \A k \in 1..(idx - 1) :
            Contributes(k) =>
                \E i \in 1..Len(tree) : \E j \in 1..Len(tree[i].tags) :
                    tree[i].tags[j] = k

\* The first note holds nothing under the key, the second does: its label
\* carries the tag 2.
C12_Witness ==
    /\ pc = "done"
    /\ hkey = "bugs"
    /\ Len(hnotes) = 2
    /\ DOMAIN hnotes[1] = {"features"}
    /\ DOMAIN hnotes[2] = {"features", "bugs"}
    /\ tree = <<[head |-> "a", tags |-> <<2>>, children |-> <<>>]>>

\* A value with every bare string or dict that stands where a list of
\* bullets can stand replaced by the list of that one bullet
RECURSIVE AsList(_), AsBullet(_)
AsList(v) ==
    IF v.t = "list" THEN List([i \in 1..Len(v.items) |-> AsBullet(v.items[i])])
    ELSE List(<<AsBullet(v)>>)

AsBullet(b) ==
    IF b.t = "str" THEN b
    ELSE Dict([j \in 1..Len(b.items) |->
                [head |-> b.items[j].head, sub |-> AsList(b.items[j].sub)]])

\* The tree of the first k notes when each holds its value written as lists
RECURSIVE CascadeAsLists(_)
CascadeAsLists(k) ==
    IF k = 0 THEN <<>>
    ELSE AddAll(CascadeAsLists(k - 1), AsList(HlistOf(hnotes[k])).items, k)

\* C13: a bare string, as the whole value of a note or as the value of a
\* dict key, gives the same tree as the list of that one string, and a dict
\* as the value of a dict key the same tree as the list of that one dict.
C13_StringIsOneLabel ==
    pc \in {"hlist", "done"} => tree = CascadeAsLists(idx - 1)

-----------------------------------------------------------------------------
(* seano_field_mergetool_opaque on its own, on any input                   *)

MergeValues == Values \cup {12}

\* if does_privileged_base_exist: return privileged_base
MergePrivileged ==
    /\ pc = "ready"
    /\ mexists
    /\ mresult' = MergeOpaque(mexists, mbase, madds)
    /\ pc' = "done"
    /\ UNCHANGED <<render, mexists, mbase, madds, hlist, calln, cdm, caches, rel, idx,
                   fld, err, stack, writes>>

\* raise SeanoSchemaPaintingException('Unable to merge values: ...')
MergeConflict ==
    /\ pc = "ready"
    /\ ~mexists
    /\ MergeOpaque(mexists, mbase, madds).raised
    /\ mresult' = MergeOpaque(mexists, mbase, madds)
    /\ pc' = "raised"
    /\ UNCHANGED <<render, mexists, mbase, madds, hlist, calln, cdm, caches, rel, idx,
                   fld, err, stack, writes>>

\* return additions[0]
MergeAgreed ==
    /\ pc = "ready"
    /\ ~mexists
    /\ ~MergeOpaque(mexists, mbase, madds).raised
    /\ mresult' = MergeOpaque(mexists, mbase, madds)
    /\ pc' = "done"
    /\ UNCHANGED <<render, mexists, mbase, madds, hlist, calln, cdm, caches, rel, idx,
                   fld, err, stack, writes>>

InitMerge ==
    /\ releases = <<>>
    /\ after = <<>>
    /\ notes = <<>>
    /\ rel = <<>>
    /\ rel0 = rel
    /\ start = 1
    /\ fields = <<>>
    /\ idx = 0
    /\ fld = 0
    /\ err = <<>>
    /\ seen = {}
    /\ ancCache = EmptyDict
    /\ ntpCache = EmptyDict
    /\ calln = 0
    /\ hnotes = <<>>
    /\ hkey = ""
    /\ tree = <<>>
    /\ tag = 0
    /\ mexists \in BOOLEAN
    /\ mbase \in MergeValues
    /\ madds \in SeqsUpTo(MergeValues, MaxAdditions)
    /\ mresult = <<>>
    /\ rtodo = <<>>
    /\ rmarks = {}
    /\ rlog = <<>>
    /\ pc = "ready"
    /\ stack = <<>>
    /\ writes = <<>>

NextMerge ==
    \/ MergePrivileged
    \/ MergeConflict
    \/ MergeAgreed

SpecMerge == InitMerge /\ [][NextMerge]_vars

MergeDone == pc \in {"done", "raised"}

\* C14: with a privileged base, the merge tool returns that base, whatever
\* the additions are (none, equal, unequal), and does not raise.
C14_PrivilegedWins ==
    (MergeDone /\ mexists) => mresult = Returned(mbase)

\* A privileged base and two additions that disagree with each other and
\* with the base
C14_Witness ==
    /\ pc = "done"
    /\ mexists
    /\ mbase = 10
    /\ madds = <<11, 12>>
    /\ mresult = Returned(10)

\* A privileged base and no additions
C14_WitnessEmpty ==
    /\ pc = "done"
    /\ mexists
    /\ mbase = 10
    /\ madds = <<>>
    /\ mresult = Returned(10)

\* The orders the additions can be handed over in
Reorderings(additions) ==
    LET n == Len(additions)
    IN {[i \in 1..n |-> additions[f[i]]] :
            f \in {g \in [1..n -> 1..n] : \A i, j \in 1..n : i # j => g[i] # g[j]}}

AdditionSet == {madds[i] : i \in 1..Len(madds)}

\* C15: without a privileged base, the merge tool returns v exactly when
\* there are additions and all of them are v, raises exactly when there are
\* none or two of them differ, and comes to the same for the additions in
\* any order.
C15_AgreeOrConflict ==
    (MergeDone /\ ~mexists) =>
        /\ mresult.raised <=> (madds = <<>> \/ Cardinality(AdditionSet) >= 2)
        /\ \A v \in MergeValues :
            mresult = Returned(v) <=> (madds # <<>> /\ AdditionSet = {v})
        /\ \A p \in Reorderings(madds) :
            LET other == MergeOpaque(mexists, mbase, p)
            IN /\ other.raised = mresult.raised
               /\ ~other.raised => other = mresult

\* No privileged base and three equal additions
C15_Witness ==
    /\ pc = "done"
    /\ ~mexists
    /\ madds = <<11, 11, 11>>
    /\ mresult = Returned(11)

\* No privileged base and additions that differ only in the last place
C15_WitnessConflict ==
    /\ pc = "raised"
    /\ ~mexists
    /\ madds = <<10, 10, 11>>
    /\ mresult.raised

-----------------------------------------------------------------------------
(* Claims about the conflict error of the two plumbing functions           *)

ValueSet(vs) == {vs[i] : i \in 1..Len(vs)}

\* the copy loop stands at a release without the field whose notes disagree
CopyConflictAt ==
    /\ pc = "copy"
    /\ idx <= Len(releases)
    /\ CopyField \notin DOMAIN rel[CopyRelease]
    /\ NotesDisagree(CopyRelease, CopyField)

\* process_release stands at a field the release lacks and two of its
\* non-transitive parents carry with different values
StickyConflictAt ==
    /\ pc = "sticky"
    /\ stack # <<>>
    /\ Top.todo = <<>>
    /\ Top.f <= Len(fields)
    /\ StickyField \notin DOMAIN rel[Top.name]
    /\ \E p, q \in Carriers(Top.name, StickyField) :
          rel[p][StickyField] # rel[q][StickyField]

\* C16: when the copy or the propagation stands at an irreconcilable merge
\* for release R and field F, its next step is the raise, with an error that
\* names R and F and holds the conflicting values, and no release is
\* written; once raised nothing else happens (no later release or field is
\* processed, the error is not swallowed); an error is raised only for a
\* release that lacks the field, with two different values.
C16_ConflictRaised ==
    /\ [](pc = "raised" =>
            /\ err.field \notin DOMAIN rel[err.release]
            /\ Cardinality(ValueSet(err.values)) >= 2)
    /\ [][/\ pc # "raised"
          /\ CopyConflictAt =>
                /\ pc' = "raised"
                /\ rel' = rel
                /\ err' = [release |-> CopyRelease, field |-> CopyField,
                           values |-> NoteValues(notes[CopyRelease], CopyField)]
          /\ StickyConflictAt =>
                /\ pc' = "raised"
                /\ rel' = rel
                /\ err'.release = Top.name
                /\ err'.field = StickyField
                /\ ValueSet(err'.values) =
                      {rel[p][StickyField] : p \in Carriers(Top.name, StickyField)}
         ]_vars

\* the propagation raised: release 3 has the parents 1 and 2, which carry
\* different values of the first field
C16_Witness ==
    /\ pc = "raised"
    /\ calln = 2
    /\ err.release = 3
    /\ err.field = SysLimitFields[1]
    /\ ValueSet(err.values) = {10, 11}
    /\ Parents(3) = {1, 2}

\* the copy raised at release 2, whose two notes disagree
C16_WitnessCopy ==
    /\ pc = "raised"
    /\ calln = 1
    /\ err.release = 2
    /\ Len(notes[2]) = 2

-----------------------------------------------------------------------------
(* seano_copy_note_fields_to_releases called again on what it left         *)

\* the caller makes the call again after it returned, with the same
\* releases, notes and fields
CopyAgain ==
    /\ pc = "done"
    /\ calln + 1 < MaxCopyCalls
    /\ calln' = calln + 1
    /\ pc' = "copy"
    /\ idx' = 1
    /\ fld' = 1
    /\ UNCHANGED <<render, mergecall, hlist, cdm, caches, rel, err, stack, writes>>

NextCopyAgain ==
    \/ CopyStart
    \/ CopyNothing
    \/ CopyWrite
    \/ CopyRaise
    \/ CopyDone
    \/ CopyAgain

SpecCopyAgain == InitCopy /\ [][NextCopyAgain]_vars

\* C17: in a call of seano_copy_note_fields_to_releases that follows a call
\* that succeeded, on the same releases, notes and fields, no step changes a
\* field of a release and no step raises.
C17_CopyIdempotent ==
    [][calln >= 1 => (rel' = rel /\ pc' # "raised")]_vars

\* the second call is over; the first one wrote a field the release did not
\* hold, the second one wrote it again
C17_Witness ==
    /\ pc = "done"
    /\ calln = 1
    /\ \E r \in Names : \E f \in Requested :
          /\ f \notin DOMAIN rel0[r]
          /\ f \in DOMAIN rel[r]
          /\ \E i, j \in 1..Len(writes) :
                i < j /\ writes[i] = writes[j] /\ writes[i].name = r /\ writes[i].key = f

-----------------------------------------------------------------------------
(* What seano_paint_backstory_releases writes and what it leaves alone     *)

\* C18: seano_paint_backstory_releases writes nothing but the key
\* is-backstory, with a boolean, and only on the start release and the
\* releases reached from it through parent edges; every other release stays
\* as it was; no parent edge changes; when the call is over the start
\* release has is-backstory = false and every release reached from it has
\* the key with a boolean.
C18_PaintFrame ==
    /\ [](/\ \A i \in 1..Len(writes) :
                /\ writes[i].key = "is-backstory"
                /\ writes[i].value \in BOOLEAN
                /\ writes[i].name \in AncestorsOrSelf(start)
          /\ \A r \in Names :
                /\ r \notin AncestorsOrSelf(start) => rel[r] = rel0[r]
                /\ DOMAIN rel[r] \subseteq DOMAIN rel0[r] \cup {"is-backstory"}
          /\ pc = "done" =>
                /\ rel[start]["is-backstory"] = FALSE
                /\ \A r \in AncestorsOrSelf(start) :
                      /\ "is-backstory" \in DOMAIN rel[r]
                      /\ rel[r]["is-backstory"] \in BOOLEAN)
    /\ [][after' = after]_vars

\* the chain 1 <- 2 <- 3 with the edge from 2 to 1 tagged, painted from 2:
\* release 1 is painted true, release 2 false, release 3 is not touched
C18_Witness ==
    /\ pc = "done"
    /\ start = 2
    /\ 2 \in Parents(3)
    /\ Parents(2) = {1}
    /\ rel[1]["is-backstory"] = TRUE
    /\ rel[2]["is-backstory"] = FALSE
    /\ rel[3] = rel0[3]

-----------------------------------------------------------------------------
(* What seano_copy_note_fields_to_releases writes and what it leaves alone *)

\* r holds f now as it did before the call
FieldUnchanged(r, f) ==
    IF f \in DOMAIN rel0[r] THEN f \in DOMAIN rel[r] /\ rel[r][f] = rel0[r][f]
    ELSE f \notin DOMAIN rel[r]

\* C19: at any time of a call of seano_copy_note_fields_to_releases, a field
\* that is not requested, or that no note of the release carries, is on the
\* release as it was before the call (absent when it was absent), and a
\* release holds no other keys than before but requested fields; when the
\* call is over, a requested field F that a note of R carries is R's prior F
\* when R had one and else the value R's own notes carry, whatever the notes
\* of other releases carry; the notes and the parent edges never change.
C19_CopyFrame ==
    /\ [](/\ \A r \in Names : \A f \in FieldNames :
                (f \notin Requested \/ NoteValues(notes[r], f) = <<>>)
                    => FieldUnchanged(r, f)
          /\ \A r \in Names : DOMAIN rel[r] \subseteq DOMAIN rel0[r] \cup Requested
          /\ pc = "done" =>
                \A r \in Names : \A f \in Requested :
                    NoteValues(notes[r], f) # <<>> =>
                        /\ f \in DOMAIN rel[r]
                        /\ IF f \in DOMAIN rel0[r] THEN rel[r][f] = rel0[r][f]
                           ELSE \A i \in 1..Len(notes[r]) :
                                  f \in DOMAIN notes[r][i]
                                      => rel[r][f] = notes[r][i][f])
    /\ [][notes' = notes /\ after' = after]_vars

\* only the first field is requested; the notes of release 1 carry the
\* second field alone, those of release 2 carry 10 for the first: release 1
\* is as it was, release 2 got 10
C19_Witness ==
    /\ pc = "done"
    /\ fields = <<SysLimitFields[1]>>
    /\ Len(notes[1]) = 1
    /\ DOMAIN notes[1][1] = {SysLimitFields[2]}
    /\ rel[1] = rel0[1]
    /\ SysLimitFields[1] \notin DOMAIN rel0[2]
    /\ Holds(rel[2], SysLimitFields[1], 10)
    /\ NoteValues(notes[2], SysLimitFields[1]) = <<10, 10>>

-----------------------------------------------------------------------------
(* What seano_paint_release_risk_levels writes and what it leaves alone    *)

\* C20: at any time of a call of seano_paint_release_risk_levels, a release
\* that came with an explicit risk is as it came, whatever its notes carry;
\* every write is of the key risk, on a release that came without one; no
\* release holds another new key; the notes do not change.
C20_RiskFrame ==
    /\ [](/\ \A r \in Names : "risk" \in DOMAIN rel0[r] => rel[r] = rel0[r]
          /\ \A i \in 1..Len(writes) :
                /\ writes[i].key = "risk"
                /\ "risk" \notin DOMAIN rel0[writes[i].name]
          /\ \A r \in Names : DOMAIN rel[r] \subseteq DOMAIN rel0[r] \cup {"risk"})
    /\ [][notes' = notes]_vars

\* a release with the explicit risk low and a note of risk high keeps low
C20_Witness ==
    /\ pc = "done"
    /\ \E r \in Names :
          /\ "risk" \in DOMAIN rel0[r]
          /\ rel0[r]["risk"] = "low"
          /\ "high" \in NoteRisks(r)
          /\ rel[r]["risk"] = "low"

-----------------------------------------------------------------------------
(* The order in which seano_propagate_sticky_release_fields processes      *)

\* the releases whose process_release call is running
OnStack == {stack[i].name : i \in 1..Len(stack)}

\* the releases whose process_release call has returned
Processed == seen \ OnStack

\* the running process_release call is at its loop over the fields
AtFieldMerge == pc = "sticky" /\ stack # <<>> /\ Top.todo = <<>>

\* C21: in a call of seano_propagate_sticky_release_fields, process_release
\* begins at most once for a release (at most one frame per name, only for
\* a name not seen before), and for every release when the call succeeds;
\* while a release is at its loop over the fields, the process_release
\* call of every direct parent has returned; a release is written only
\* while it is at that loop, so the parents hold their final values.  This
\* holds for every order of the releases list.
C21_ParentsFirstOnce ==
    /\ [](/\ pc = "sticky" =>
                /\ OnStack \subseteq seen
                /\ \A i, j \in 1..Len(stack) : stack[i].name = stack[j].name => i = j
          /\ AtFieldMerge => Parents(Top.name) \subseteq Processed
          /\ pc = "done" => (seen = Names /\ stack = <<>>))
    /\ [][/\ Len(stack') > Len(stack) =>
                /\ stack'[Len(stack')].name \notin seen
                /\ seen' = seen \cup {stack'[Len(stack')].name}
          /\ \A r \in Names :
                rel'[r] # rel[r] => (AtFieldMerge /\ Top.name = r)
         ]_vars

\* the releases list ends with a release that has two parents, so the loop
\* begins with it; a parent was written before it was
C21_Witness ==
    /\ pc = "done"
    /\ Cardinality(Parents(releases[Len(releases)])) = 2
    /\ \E i, k \in 1..Len(writes) :
          /\ i < k
          /\ writes[k].name = releases[Len(releases)]
          /\ writes[i].name \in Parents(writes[k].name)

-----------------------------------------------------------------------------
(* seano_propagate_sticky_release_fields called again after the graph     *)
(* changed                                                                 *)

StickyAgainKeepingCaches ==
    /\ pc = "done"
    /\ calln + 1 < MaxStickyCalls
    /\ calln' = calln + 1
    /\ after' \in Graphs(StickyRel, {FALSE})
    /\ rel0' = rel
    /\ pc' = "sticky"
    /\ idx' = Len(releases)
    /\ UNCHANGED <<render, mergecall, hlist, releases, notes, start, fields, caches,
                   rel, fld, err, stack, writes>>

\* the caller changes the parent edges and makes the call again:
\* _ancestor_inheritance, _non_transitive_parents and _seen_releases are
\* locals of the call and begin empty
StickyAgain ==
    /\ pc = "done"
    /\ calln + 1 < MaxStickyCalls
    /\ calln' = calln + 1
    /\ after' \in Graphs(StickyRel, {FALSE})
    /\ rel0' = rel
    /\ pc' = "sticky"
    /\ idx' = Len(releases)
    /\ seen' = {}
    /\ ancCache' = EmptyDict
    /\ ntpCache' = EmptyDict
    /\ UNCHANGED <<render, mergecall, hlist, releases, notes, start, fields, rel, fld,
                   err, stack, writes>>

InitStickyAgain ==
    /\ releases = Identity(StickyRel)
    /\ after \in Graphs(StickyRel, {FALSE})
    /\ notes = [r \in 1..StickyRel |-> <<>>]
    /\ rel \in [1..StickyRel -> FirstFieldDicts(Values)]
    /\ rel0 = rel
    /\ start = 1
    /\ fields = SysLimitFields
    /\ idx = 0
    /\ fld = 0
    /\ err = <<>>
    /\ seen = {}
    /\ ancCache = EmptyDict
    /\ ntpCache = EmptyDict
    /\ calln = 0
    /\ hnotes = <<>>
    /\ hkey = ""
    /\ tree = <<>>
    /\ tag = 0
    /\ mexists = FALSE
    /\ mbase = None
    /\ madds = <<>>
    /\ mresult = <<>>
    /\ rtodo = <<>>
    /\ rmarks = {}
    /\ rlog = <<>>
    /\ pc = "ready"
    /\ stack = <<>>
    /\ writes = <<>>

NextStickyAgain ==
    \/ StickyStart
    \/ StickySteps
    \/ StickyAgain

SpecStickyAgain == InitStickyAgain /\ [][NextStickyAgain]_vars

\* C22: at every point of every call, each entry of the ancestor cache is
\* the release itself with all releases reached from it through the parent
\* edges as they are now, and each entry of the non-transitive-parent cache
\* is what the parent edges as they are now give; every call begins with
\* the three caches empty, and a call that succeeds has visited every
\* release.
C22_CachesPerCall ==
    /\ [](/\ \A x \in DOMAIN ancCache : ancCache[x] = AncestorsOrSelf(x)
          /\ \A x \in DOMAIN ntpCache : ntpCache[x] = NonTransitiveParents(x)
          /\ pc = "done" => seen = Names)
    /\ [][(pc # "sticky" /\ pc' = "sticky") =>
            (seen' = {} /\ ancCache' = EmptyDict /\ ntpCache' = EmptyDict)]_vars

\* the second call is over: release 3 has the parents 1 and 2, release 2 has
\* none and its closure is itself alone; release 2 was written, so in the
\* first call it had release 1 as its parent
C22_Witness ==
    /\ pc = "done"
    /\ calln = 1
    /\ Parents(3) = {1, 2}
    /\ Parents(2) = {}
    /\ 2 \in DOMAIN ancCache
    /\ ancCache[2] = {2}
    /\ \E i \in 1..Len(writes) : writes[i].name = 2

-----------------------------------------------------------------------------
(* The outcome of seano_propagate_sticky_release_fields and the orders of  *)
(* its lists                                                               *)

\* The values of f that reach r: its own when it came with one, else what
\* its non-transitive parents settle on.  Only the sets of parents and the
\* fields the releases came with are looked at, no order of any list.
RECURSIVE Inherited(_, _)
Inherited(r, f) ==
    IF f \in DOMAIN rel0[r] THEN {rel0[r][f]}
    ELSE UNION {IF Cardinality(Inherited(p, f)) = 1 THEN Inherited(p, f) ELSE {} :
                    p \in {q \in Parents(r) : ~Redundant(r, q)}}

ConflictAt(r, f) == Cardinality(Inherited(r, f)) >= 2

\* C23: the call succeeds exactly when no release and requested field has
\* two different values reaching it, it raises at such a release and field,
\* and on success every release holds, for every requested field, the one
\* value that reaches it or nothing when none does: all of this is given by
\* the sets of parents and the fields the releases came with, so it is the
\* same for every order of the releases list and of the parent lists.
C23_OrderIndependent ==
    /\ pc = "done" =>
          \A r \in Names : \A f \in Requested :
              /\ ~ConflictAt(r, f)
              /\ IF Inherited(r, f) = {} THEN f \notin DOMAIN rel[r]
                 ELSE f \in DOMAIN rel[r] /\ Inherited(r, f) = {rel[r][f]}
    /\ pc = "raised" => ConflictAt(err.release, err.field)

\* the releases list is not in the order of the graph and release 3 lists
\* its parents 2 before 1; the parents came with the same value, release 3
\* got it
C23_Witness ==
    /\ pc = "done"
    /\ releases = <<3, 1, 2>>
    /\ ParentNames(3) = <<2, 1>>
    /\ Parents(2) = {}
    /\ Holds(rel0[1], SysLimitFields[1], 10)
    /\ Holds(rel0[2], SysLimitFields[1], 10)
    /\ SysLimitFields[1] \notin DOMAIN rel0[3]
    /\ Holds(rel[3], SysLimitFields[1], 10)

-----------------------------------------------------------------------------
(* seano_paint_backstory_releases comes to an end                          *)

\* paint runs on: a step is taken whenever one can be
SpecBackstoryFair == SpecBackstory /\ WF_vars(NextBackstory)

\* the number of edges of the longest path from r through parent edges
RECURSIVE LongestAncestorPath(_)
LongestAncestorPath(r) ==
    IF Parents(r) = {} THEN 0
    ELSE LET ls == {LongestAncestorPath(p) : p \in Parents(r)}
         IN 1 + CHOOSE l \in ls : \A m \in ls : m <= l

\* C24: the chain of running paint calls begins at the start release, each
\* call is for a parent of the release of the call that made it, and the
\* chain has at most as many calls as the longest path from the start
\* release through parent edges has releases; the call comes to its end.
C24_PaintTerminates ==
    /\ [](/\ stack # <<>> => stack[1].name = start
          /\ \A i \in 1..(Len(stack) - 1) :
                stack[i + 1].name \in Parents(stack[i].name)
          /\ Len(stack) <= LongestAncestorPath(start) + 1)
    /\ <>(pc = "done")

\* the call is over and a release was painted twice: it is reached from the
\* start release along two paths
C24_Witness ==
    /\ pc = "done"
    /\ \E i, j \in 1..Len(writes) : i < j /\ writes[i].name = writes[j].name
    /\ LongestAncestorPath(start) = 2

-----------------------------------------------------------------------------
(* seano_render_html_note_list(notes, key, line_formatter) with            *)
(* seano_html_note_list_line_formatter_text_with_tickets                   *)
(* A node of the tree is named by its path: the positions, from the top    *)
(* list down, of the children lists it is reached through.                 *)

\* the nodes in the order render_lst formats them: each before its children
RECURSIVE PreOrder(_, _)
PreOrder(children, prefix) ==
    Concat([i \in 1..Len(children) |->
              <<Append(prefix, i)>> \o PreOrder(children[i].children, Append(prefix, i))])

RECURSIVE NodeAt(_, _)
NodeAt(children, path) ==
    IF Len(path) = 1 THEN children[path[1]]
    ELSE NodeAt(children[path[1]].children, Tail(path))

AllPaths ==
    LET all == PreOrder(tree, <<>>)
    IN {all[i] : i \in 1..Len(all)}

BelowChildren(path) ==
    {q \in AllPaths : Len(q) = Len(path) + 1 /\ SubSeq(q, 1, Len(path)) = path}

\* the nodes below the node at path, at any depth
Below(path) ==
    {q \in AllPaths : Len(q) > Len(path) /\ SubSeq(q, 1, Len(path)) = path}

\* lst[x] for a list and x >= 0: the element at position x + 1 when there
\* is one, IndexError otherwise
InRange(lst, x) == x < Len(lst)

RenderNode == NodeAt(tree, Head(rtodo))

\* queue[0]['tags'] != node['tags'] for some node below
RenderDeferred ==
    LET own == RenderNode.tags
    IN \E q \in Below(Head(rtodo)) : NodeAt(tree, q).tags # own

Line(path, branch, reads) == [path |-> path, branch |-> branch, reads |-> reads]

\* render_lst(seano_cascade_hlist(notes, key))
RenderStart ==
    /\ pc = "done"
    /\ rlog = <<>>
    /\ pc' = "render"
    /\ rtodo' = PreOrder(tree, <<>>)
    /\ UNCHANGED <<rmarks, rlog, mergecall, hlist, calln, cdm, caches, rel,
                   idx, fld, err, stack, writes>>

\* if node.get('already_printed_tickets', False): return result
RenderMarked ==
    /\ pc = "render"
    /\ rtodo # <<>>
    /\ Head(rtodo) \in rmarks
    /\ rlog' = Append(rlog, Line(Head(rtodo), "marked", <<>>))
    /\ rtodo' = Tail(rtodo)
    /\ UNCHANGED <<rmarks, mergecall, hlist, calln, cdm, caches, rel, idx,
                   fld, err, pc, stack, writes>>

\* a node below has other tags: return result
RenderDefer ==
    /\ pc = "render"
    /\ rtodo # <<>>
    /\ Head(rtodo) \notin rmarks
    /\ RenderDeferred
    /\ rlog' = Append(rlog, Line(Head(rtodo), "deferred", <<>>))
    /\ rtodo' = Tail(rtodo)
    /\ UNCHANGED <<rmarks, mergecall, hlist, calln, cdm, caches, rel, idx,
                   fld, err, pc, stack, writes>>

\* the tickets are printed on this line: the nodes below are marked and
\* notes[x] is read for each x in node['tags']
RenderTickets ==
    /\ pc = "render"
    /\ rtodo # <<>>
    /\ Head(rtodo) \notin rmarks
    /\ ~RenderDeferred
    /\ \A i \in 1..Len(RenderNode.tags) : InRange(hnotes, RenderNode.tags[i])
    /\ rmarks' = rmarks \cup Below(Head(rtodo))
    /\ rlog' = Append(rlog, Line(Head(rtodo), "tickets",
                    [i \in 1..Len(RenderNode.tags) |-> RenderNode.tags[i] + 1]))
    /\ rtodo' = Tail(rtodo)
    /\ UNCHANGED <<mergecall, hlist, calln, cdm, caches, rel, idx, fld, err,
                   pc, stack, writes>>

\* notes[x] raises IndexError for an x in node['tags']; the nodes below
\* were marked before
RenderIndexError ==
    /\ pc = "render"
    /\ rtodo # <<>>
    /\ Head(rtodo) \notin rmarks
    /\ ~RenderDeferred
    /\ \E i \in 1..Len(RenderNode.tags) : ~InRange(hnotes, RenderNode.tags[i])
    /\ rmarks' = rmarks \cup Below(Head(rtodo))
    /\ rlog' = Append(rlog, Line(Head(rtodo), "tickets", <<>>))
    /\ rtodo' = Tail(rtodo)
    /\ pc' = "raised"
    /\ UNCHANGED <<mergecall, hlist, calln, cdm, caches, rel, idx, fld,
                   err, stack, writes>>

\* every node is formatted: the html is returned
RenderReturn ==
    /\ pc = "render"
    /\ rtodo = <<>>
    /\ pc' = "rendered"
    /\ UNCHANGED <<render, mergecall, hlist, calln, cdm, caches, rel, idx, fld,
                   err, stack, writes>>

\* The notes are rendered for the key they hold hlists under.
InitRender == InitHlist /\ hkey = "features"

NextRender ==
    \/ HlistStart
    \/ HlistNote
    \/ HlistReturn
    \/ RenderStart
    \/ RenderMarked
    \/ RenderDefer
    \/ RenderTickets
    \/ RenderIndexError
    \/ RenderReturn

SpecRender == InitRender /\ [][NextRender]_vars

TagSet(node) == {node.tags[i] : i \in 1..Len(node.tags)}

\* C25: once the tree is merged, every tag of every node is an index the
\* notes list has, the formatter never fails on notes[t], and the notes it
\* reads for a line with tickets are exactly the notes that gave the node
\* its label (the k-th note is the one tagged k).
C25_TagsIndexNotes ==
    pc \in {"done", "render", "rendered", "raised"} =>
        /\ \A p \in AllPaths : \A t \in TagSet(NodeAt(tree, p)) : InRange(hnotes, t)
        /\ pc # "raised"
        /\ \A i \in 1..Len(rlog) :
            rlog[i].branch = "tickets" =>
                {rlog[i].reads[j] : j \in 1..Len(rlog[i].reads)}
                    = TagSet(NodeAt(tree, rlog[i].path))

\* the formatter came to the node at path / printed tickets on its line
Formatted(path) == \E i \in 1..Len(rlog) : rlog[i].path = path

Prints(path) ==
    \E i \in 1..Len(rlog) : rlog[i].path = path /\ rlog[i].branch = "tickets"

\* the nodes above the node at path
Above(path) == {SubSeq(path, 1, k) : k \in 1..(Len(path) - 1)}

\* the nodes under the node at path
Under(path) == {q \in AllPaths : path \in Above(q)}

\* every node under the node at path has the tags of that node
SameTagsUnder(path) ==
    \A q \in Under(path) : NodeAt(tree, q).tags = NodeAt(tree, path).tags

\* C26: while a freshly merged tree is rendered with the tickets formatter,
\* the nodes are formatted once each, every node before the nodes under it;
\* a node that was formatted took the print-tickets branch if and only if
\* no node above it took it and all nodes under it have its tags; so on
\* every path from a top node to a leaf at most one node took it, and
\* exactly one once the leaf is formatted; a render that returns has
\* formatted every node.
C26_OnePrintPerPath ==
    pc \in {"render", "rendered", "raised"} =>
        /\ [i \in 1..Len(rlog) |-> rlog[i].path] \o rtodo = PreOrder(tree, <<>>)
        /\ pc = "rendered" => rtodo = <<>>
        /\ \A p \in AllPaths :
            Formatted(p) =>
                (Prints(p) <=> ((\A a \in Above(p) : ~Prints(a)) /\ SameTagsUnder(p)))
        /\ \A leaf \in {p \in AllPaths : Under(p) = {}} :
            LET printing == {q \in Above(leaf) \cup {leaf} : Prints(q)}
            IN /\ Cardinality(printing) <= 1
               /\ Formatted(leaf) => Cardinality(printing) = 1

\* the first note gives a twice, once with the child xy: a has the tags
\* [1, 1] and xy the tags [1], so the line of a defers and the line of xy
\* prints the tickets
C26_Witness ==
    /\ pc = "rendered"
    /\ rlog = <<Line(<<1>>, "deferred", <<>>), Line(<<1, 1>>, "tickets", <<2>>)>>

\* three nodes on one path with the same tags: the top one prints, the two
\* under it are marked
C26_WitnessMarked ==
    /\ pc = "rendered"
    /\ rlog = <<Line(<<1>>, "tickets", <<2>>), Line(<<1, 1>>, "marked", <<>>),
                Line(<<1, 1, 1>>, "marked", <<>>)>>

-----------------------------------------------------------------------------
(* Either plumbing function is called once: what a failed call leaves      *)

InitPlumbing == InitCopy \/ InitSticky

NextPlumbing == NextCopy \/ NextSticky

SpecPlumbing == InitPlumbing /\ [][NextPlumbing]_vars

\* the copy is (or was) running: only its loop moves fld
CopyRunning == fld >= 1

\* the position of a release in the releases list, of a field in fields
ReleasePos(r) == CHOOSE i \in 1..Len(releases) : releases[i] = r

FieldPos(f) == CHOOSE i \in 1..Len(fields) : fields[i] = f

\* the call wrote f on r
Wrote(r, f) == \E i \in 1..Len(writes) : writes[i].name = r /\ writes[i].key = f

\* when the call raised, it had not come to f on r: in the copy, r comes
\* after the failing release in the list, or is the failing release and f
\* comes no earlier than the failing field; in the propagation,
\* process_release was never entered for r, or r is the failing release
\* and f comes no earlier than the failing field
NotYetProcessed(r, f) ==
    \/ r = err.release /\ FieldPos(f) >= FieldPos(err.field)
    \/ IF CopyRunning THEN ReleasePos(r) > ReleasePos(err.release)
       ELSE r \notin seen

\* C27: when copyNoteFieldsToReleases or propagateStickyReleaseFields has
\* raised the conflict at release R for field F, R has no F, every field
\* the call wrote before holds the value written, what was written is on
\* releases other than R or on R for a field earlier than F (in the copy:
\* on releases earlier in the list), the releases and fields the call had
\* not come to are as they were before the call, and so is every field the
\* call did not write; the raising step itself changes no release.
C27_NoRollback ==
    /\ [](pc = "raised" =>
            /\ err.field \notin DOMAIN rel[err.release]
            /\ \A i \in 1..Len(writes) :
                  /\ Holds(rel[writes[i].name], writes[i].key, writes[i].value)
                  /\ ~NotYetProcessed(writes[i].name, writes[i].key)
            /\ \A r \in Names : \A f \in Requested :
                  NotYetProcessed(r, f) => ~Wrote(r, f)
            /\ \A r \in Names : \A f \in FieldNames :
                  ~Wrote(r, f) => FieldUnchanged(r, f))
    /\ [][pc # "raised" /\ pc' = "raised" => rel' = rel /\ writes' = writes]_vars

\* the copy raised at the second field of release 2 after it had given
\* release 1 a first field and release 2 a first field that they lacked:
\* both hold what was written
C27_Witness ==
    /\ pc = "raised"
    /\ CopyRunning
    /\ Len(fields) = 2
    /\ err.release = 2
    /\ err.field = fields[2]
    /\ Len(writes) >= 2
    /\ \E i, j \in 1..Len(writes) :
          /\ writes[i].name = 1
          /\ writes[i].key \notin DOMAIN rel0[1]
          /\ writes[j].name = 2
          /\ writes[j].key = fields[1]
          /\ fields[1] \notin DOMAIN rel0[2]
    /\ rel # rel0

\* the propagation raised at the second field of release 3 after it had
\* given release 3 the first field, which release 3 lacked
C27_WitnessSticky ==
    /\ pc = "raised"
    /\ ~CopyRunning
    /\ err.release = 3
    /\ err.field = fields[2]
    /\ writes = <<[name |-> 3, key |-> fields[1], value |-> 10]>>
    /\ fields[1] \notin DOMAIN rel0[3]
    /\ Holds(rel[3], fields[1], 10)

=============================================================================
